---- MODULE Spec2Model ----
(***************************************************************************)
(* Model of the cb2utorial tutorial pipeline: the TutorialWorkflow.Run     *)
(* orchestrator and the validation logic of the services it calls          *)
(* (FileReader, AbstractionAnalyzer, RelationshipAnalyzer, ChapterOrderer, *)
(* ChapterWriter, FileWriter).                                             *)
(*                                                                         *)
(* Text is a sequence of one-character strings.  A value decoded from the  *)
(* generator's YAML into interface{} is a record [t, n, s]: t = "int" with *)
(* the integer n, t = "string" with the text s, or t = "other" (float, nil).*)
(***************************************************************************)
EXTENDS Integers, Sequences, FiniteSets, TLC

\* ------------------------------------------------------------------------
\* Bounds of the model
\* ------------------------------------------------------------------------
MaxCorpus == 1

MaxAbs == 2

MaxEdges == 1

MaxOrder == 3

MaxRefValue == 11
MaxTitle == 5
MaxPieces == 7

\* ------------------------------------------------------------------------
\* Program constants
\* ------------------------------------------------------------------------
DefaultMaxAbstractions == 10

SummaryLimit == 200

\* ------------------------------------------------------------------------
\* Text helpers (Go strings package, strconv)
\* ------------------------------------------------------------------------
Digits == {"0", "1", "2", "3", "4", "5", "6", "7", "8", "9"}

DigitVal(c) ==
    CASE c = "0" -> 0 [] c = "1" -> 1 [] c = "2" -> 2 [] c = "3" -> 3
      [] c = "4" -> 4 [] c = "5" -> 5 [] c = "6" -> 6 [] c = "7" -> 7
      [] c = "8" -> 8 [] c = "9" -> 9

\* Text is a sequence of characters, each a one-character string.  A
\* character that a string of this module cannot hold is written as its code
\* point: "U+000B" is the vertical tab, "U+00A0" the no-break space.

\* the white space of unicode.IsSpace, which strings.TrimSpace removes
SpaceChars ==
    {" ", "\t", "\n", "\r", "\f", "U+000B", "U+0085", "U+00A0", "U+1680",
     "U+2000", "U+2001", "U+2002", "U+2003", "U+2004", "U+2005", "U+2006",
     "U+2007", "U+2008", "U+2009", "U+200A", "U+2028", "U+2029", "U+202F",
     "U+205F", "U+3000"}

IsSpace(c) == c \in SpaceChars

RECURSIVE TrimLeft(_)
TrimLeft(s) ==
    IF s = <<>> THEN <<>>
    ELSE IF IsSpace(Head(s)) THEN TrimLeft(Tail(s)) ELSE s

RECURSIVE TrimRight(_)
TrimRight(s) ==
    IF s = <<>> THEN <<>>
    ELSE IF IsSpace(s[Len(s)]) THEN TrimRight(SubSeq(s, 1, Len(s) - 1)) ELSE s

\* strings.TrimSpace
TrimSpace(s) == TrimRight(TrimLeft(s))

\* strings.Contains(s, "#") for a one-character needle
ContainsChar(s, c) == \E k \in 1..Len(s) : s[k] = c

\* strings.Split(s, "#")[0]: the text before the first occurrence of c
RECURSIVE BeforeFirst(_, _)
BeforeFirst(s, c) ==
    IF s = <<>> THEN <<>>
    ELSE IF Head(s) = c THEN <<>>
    ELSE <<Head(s)>> \o BeforeFirst(Tail(s), c)

\* decimal value of a non-empty text of digits
RECURSIVE DecVal(_)
DecVal(s) ==
    IF s = <<>> THEN 0
    ELSE 10 * DecVal(SubSeq(s, 1, Len(s) - 1)) + DigitVal(s[Len(s)])

AllDigits(s) == s # <<>> /\ \A k \in 1..Len(s) : s[k] \in Digits

\* the digits of the largest int (64 bits), 9223372036854775807, and of the
\* magnitude of the smallest, 9223372036854775808
MaxIntDigits ==
    <<"9", "2", "2", "3", "3", "7", "2", "0", "3", "6", "8", "5", "4", "7", "7",
      "5", "8", "0", "7">>

MinIntDigits ==
    <<"9", "2", "2", "3", "3", "7", "2", "0", "3", "6", "8", "5", "4", "7", "7",
      "5", "8", "0", "8">>

\* s without its leading zeros
RECURSIVE StripZeros(_)
StripZeros(s) ==
    IF s # <<>> /\ Head(s) = "0" THEN StripZeros(Tail(s)) ELSE s

\* digit texts a and b of equal length: a is the larger number
RECURSIVE DigitsGreater(_, _)
DigitsGreater(a, b) ==
    IF a = <<>> THEN FALSE
    ELSE IF Head(a) # Head(b) THEN DigitVal(Head(a)) > DigitVal(Head(b))
    ELSE DigitsGreater(Tail(a), Tail(b))

\* the number written by the digits does not fit an int: strconv.ErrRange
OutOfIntRange(digits, limit) ==
    LET d == StripZeros(digits)
    IN  \/ Len(d) > Len(limit)
        \/ Len(d) = Len(limit) /\ DigitsGreater(d, limit)

\* the digits of the largest uint64, 18446744073709551615
MaxUintDigits ==
    <<"1", "8", "4", "4", "6", "7", "4", "4", "0", "7", "3", "7", "0", "9", "5",
      "5", "1", "6", "1", "5">>

\* the digits s starts with
RECURSIVE DigitPrefix(_)
DigitPrefix(s) ==
    IF s = <<>> \/ Head(s) \notin Digits THEN <<>>
    ELSE <<Head(s)>> \o DigitPrefix(Tail(s))

\* strconv.ParseUint under strconv.ParseInt, on the text after the sign:
\* the characters are read left to right, so digits that overflow a uint64
\* are a range error before a later character that is no digit is seen;
\* limit is the largest magnitude an int of that sign holds
ParseDigits(body, limit) ==
    IF body = <<>> THEN [ok |-> FALSE, cause |-> "syntax"]
    ELSE IF OutOfIntRange(DigitPrefix(body), MaxUintDigits)
    THEN [ok |-> FALSE, cause |-> "range"]
    ELSE IF DigitPrefix(body) # body THEN [ok |-> FALSE, cause |-> "syntax"]
    ELSE IF OutOfIntRange(body, limit) THEN [ok |-> FALSE, cause |-> "range"]
    ELSE [ok |-> TRUE, v |-> DecVal(body)]

\* strconv.Atoi: optional sign, then one or more decimal digits, of a value
\* that fits an int
Atoi(s) ==
    IF s = <<>> THEN [ok |-> FALSE, cause |-> "syntax"]
    ELSE IF Head(s) = "-"
    THEN LET r == ParseDigits(Tail(s), MinIntDigits)
         IN  IF r.ok THEN [ok |-> TRUE, v |-> 0 - r.v] ELSE r
    ELSE IF Head(s) = "+" THEN ParseDigits(Tail(s), MaxIntDigits)
    ELSE ParseDigits(s, MaxIntDigits)

\* ------------------------------------------------------------------------
\* Cross-reference resolver
\* ------------------------------------------------------------------------
IntRef(k) == [t |-> "int", n |-> k, s |-> <<>>]

StrRef(text) == [t |-> "string", n |-> 0, s |-> text]

OtherRef == [t |-> "other", n |-> 0, s |-> <<>>]

\* extractIndex that converts the whole string, annotation included
extractIndex_NoAnnotation(value) ==
    CASE value.t = "int" -> [ok |-> TRUE, v |-> value.n]
      [] value.t = "string" -> Atoi(TrimSpace(value.s))
      [] OTHER -> [ok |-> FALSE, cause |-> "unexpected type"]

\* extractIndex handles both int and "0 # Name" formats
extractIndex(value) ==
    CASE value.t = "int" -> [ok |-> TRUE, v |-> value.n]
      [] value.t = "string" ->
            IF ContainsChar(value.s, "#")
            THEN Atoi(TrimSpace(BeforeFirst(value.s, "#")))
            ELSE Atoi(TrimSpace(value.s))
      [] OTHER -> [ok |-> FALSE, cause |-> "unexpected type"]

\* ------------------------------------------------------------------------
\* Outcomes of a service invocation.  llm is the number of generator calls
\* the invocation made.
\* ------------------------------------------------------------------------
Ok(out, n) == [ok |-> TRUE, out |-> out, err |-> [kind |-> "none"], llm |-> n]

Fail(e, n) == [ok |-> FALSE, out |-> <<>>, err |-> e, llm |-> n]

\* Outcome of llm.NewClient, client.CallLLM and yaml.Unmarshal for one
\* invocation: kind "client_error", "llm_error", "parse_error", or "ok" with
\* the decoded document doc.
GenOk(doc) == [kind |-> "ok", doc |-> <<doc>>]

GenFail(kind) == [kind |-> kind, doc |-> <<>>]

GenFailures == {GenFail("client_error"), GenFail("llm_error"), GenFail("parse_error")}

\* the failures of a stage that decodes nothing: llm.NewClient, client.CallLLM
CallFailures == {GenFail("client_error"), GenFail("llm_error")}

\* a slice index out of range while the prompt is built: the invocation
\* panics before llm.NewClient, returns nothing and calls no generator
Panic(idx) == Fail([kind |-> "panic: index out of range", idx |-> idx], 0)

\* position of the first negative index of fs at or after j, 0 if none; a
\* negative index passes the guard fileIdx < len(input.Files)
RECURSIVE FirstNegative(_, _)
FirstNegative(fs, j) ==
    IF j > Len(fs) THEN 0
    ELSE IF fs[j] < 0 THEN j
    ELSE FirstNegative(fs, j + 1)

GenOks(docs) == {GenOk(d) : d \in docs}

\* the decoded document of a successful outcome
Doc(gen) == gen.doc[1]

GenError(gen) ==
    CASE gen.kind = "client_error" -> [kind |-> "failed to create LLM client"]
      [] gen.kind = "llm_error" -> [kind |-> "LLM call failed"]
      [] gen.kind = "parse_error" -> [kind |-> "failed to parse YAML response"]

\* GenCalls of a stage that asks the generator again after a parse failure
GenCalls_RetryOnParseFailure(gen) ==
    IF gen.kind = "client_error" THEN 0
    ELSE IF gen.kind = "parse_error" THEN 2 ELSE 1

GenCalls(gen) == IF gen.kind = "client_error" THEN 0 ELSE 1

\* ------------------------------------------------------------------------
\* FileReaderService.ReadFiles: walk is the outcome of utils.WalkDirectory,
\* [ok, paths]; the files are indexed by position.
\* ------------------------------------------------------------------------
\* ReadFiles without the check of the repository path
ReadFiles_NoPathCheck(repoPath, walk) ==
    IF ~walk.ok THEN Fail([kind |-> "failed to walk directory"], 0)
    ELSE Ok([i \in 1..Len(walk.paths) |->
                [Index |-> i - 1, Path |-> walk.paths[i]]], 0)

ReadFiles(repoPath, walk) ==
    IF repoPath = "" THEN Fail([kind |-> "repo_path is required"], 0)
    ELSE IF ~walk.ok THEN Fail([kind |-> "failed to walk directory"], 0)
    ELSE Ok([i \in 1..Len(walk.paths) |->
                [Index |-> i - 1, Path |-> walk.paths[i]]], 0)

\* ------------------------------------------------------------------------
\* AbstractionAnalyzerService.AnalyzeAbstractions
\* gen.doc is the decoded list of yamlAbstraction [Name, Files].
\* ------------------------------------------------------------------------
\* FirstBadFile with the upper bound only
RECURSIVE FirstBadFile_UpperBoundOnly(_, _, _)
FirstBadFile_UpperBoundOnly(fs, nfiles, j) ==
    IF j > Len(fs) THEN 0
    ELSE IF fs[j] >= nfiles THEN j
    ELSE FirstBadFile_UpperBoundOnly(fs, nfiles, j + 1)

\* position of the first file index of fs outside 0..nfiles-1, 0 if none
RECURSIVE FirstBadFile(_, _, _)
FirstBadFile(fs, nfiles, j) ==
    IF j > Len(fs) THEN 0
    ELSE IF fs[j] < 0 \/ fs[j] >= nfiles THEN j
    ELSE FirstBadFile(fs, nfiles, j + 1)

\* AbstractionLoop storing a 1-based Index
RECURSIVE AbstractionLoop_OneBased(_, _, _, _)
AbstractionLoop_OneBased(ya, nfiles, i, acc) ==
    IF i > Len(ya) THEN Ok(acc, 1)
    ELSE LET j == FirstBadFile(ya[i].Files, nfiles, 1)
         IN  IF j # 0
             THEN Fail([kind |-> "invalid file index",
                        idx |-> ya[i].Files[j], name |-> ya[i].Name], 1)
             ELSE AbstractionLoop_OneBased(ya, nfiles, i + 1,
                      Append(acc, [Index |-> i, Name |-> ya[i].Name,
                                   FileIndices |-> ya[i].Files]))

\* the loop over yamlAbstractions: validate the file indices of entry i, then
\* store the abstraction with Index set to the 0-based position
RECURSIVE AbstractionLoop(_, _, _, _)
AbstractionLoop(ya, nfiles, i, acc) ==
    IF i > Len(ya) THEN Ok(acc, 1)
    ELSE LET j == FirstBadFile(ya[i].Files, nfiles, 1)
         IN  IF j # 0
             THEN Fail([kind |-> "invalid file index",
                        idx |-> ya[i].Files[j], name |-> ya[i].Name], 1)
             ELSE AbstractionLoop(ya, nfiles, i + 1,
                      Append(acc, [Index |-> i - 1, Name |-> ya[i].Name,
                                   FileIndices |-> ya[i].Files]))

\* yaml.Unmarshal of the response into []yamlAbstraction, whose Files field
\* is []int: raw is the list of [Name, Files] with the Files entries
\* undecoded; a Files entry that is a string is a decoding error
UnmarshalAbstractions(raw) ==
    IF \A k \in 1..Len(raw) : \A j \in 1..Len(raw[k].Files) : raw[k].Files[j].t = "int"
    THEN GenOk([k \in 1..Len(raw) |->
                  [Name |-> raw[k].Name,
                   Files |-> [j \in 1..Len(raw[k].Files) |-> raw[k].Files[j].n]]])
    ELSE GenFail("parse_error")

\* Truncate keeping the last maxAbstractions entries
Truncate_KeepLast(ya, maxAbstractions) ==
    IF Len(ya) > maxAbstractions
    THEN SubSeq(ya, Len(ya) - maxAbstractions + 1, Len(ya))
    ELSE ya

\* yamlAbstractions[:input.MaxAbstractions] when the list is longer
Truncate(ya, maxAbstractions) ==
    IF Len(ya) > maxAbstractions THEN SubSeq(ya, 1, maxAbstractions) ELSE ya

AnalyzeAbstractions(files, maxAbstractions, gen) ==
    IF Len(files) = 0 THEN Fail([kind |-> "no files provided"], 0)
    ELSE IF gen.kind # "ok" THEN Fail(GenError(gen), GenCalls(gen))
    ELSE IF Len(Doc(gen)) = 0 THEN Fail([kind |-> "no abstractions identified"], 1)
    ELSE IF Len(Doc(gen)) > maxAbstractions /\ maxAbstractions < 0
         THEN Fail([kind |-> "panic: slice bounds out of range"], 1)
    ELSE AbstractionLoop(Truncate(Doc(gen), maxAbstractions), Len(files), 1, <<>>)

\* ------------------------------------------------------------------------
\* RelationshipAnalyzerService.AnalyzeRelationships
\* gen.doc is the decoded yamlRelationshipData [Summary, Details], each
\* detail a yamlRelationship [From, To, Label] with From and To undecoded.
\* ------------------------------------------------------------------------
\* RelationshipLoop whose 'to' bound check is off by one (toIdx > len)
RECURSIVE RelationshipLoop_OffByOne(_, _, _, _, _)
RelationshipLoop_OffByOne(details, n, i, acc, summary) ==
    IF i > Len(details) THEN Ok([Summary |-> summary, Details |-> acc], 1)
    ELSE LET yr == details[i]
             from == extractIndex(yr.From)
             to == extractIndex(yr.To)
         IN  IF ~from.ok
             THEN Fail([kind |-> "invalid 'from' index", pos |-> i - 1,
                        cause |-> from.cause], 1)
             ELSE IF ~to.ok
             THEN Fail([kind |-> "invalid 'to' index", pos |-> i - 1,
                        cause |-> to.cause], 1)
             ELSE IF from.v < 0 \/ from.v >= n
             THEN Fail([kind |-> "from index out of bounds",
                        idx |-> from.v, pos |-> i - 1], 1)
             ELSE IF to.v < 0 \/ to.v > n
             THEN Fail([kind |-> "to index out of bounds",
                        idx |-> to.v, pos |-> i - 1], 1)
             ELSE RelationshipLoop_OffByOne(details, n, i + 1,
                      Append(acc, [FromIndex |-> from.v, ToIndex |-> to.v,
                                   Label |-> yr.Label]), summary)

\* RelationshipLoop that also rejects an edge from an abstraction to itself
RECURSIVE RelationshipLoop_RejectSelfLoop(_, _, _, _, _)
RelationshipLoop_RejectSelfLoop(details, n, i, acc, summary) ==
    IF i > Len(details) THEN Ok([Summary |-> summary, Details |-> acc], 1)
    ELSE LET yr == details[i]
             from == extractIndex(yr.From)
             to == extractIndex(yr.To)
         IN  IF ~from.ok
             THEN Fail([kind |-> "invalid 'from' index", pos |-> i - 1,
                        cause |-> from.cause], 1)
             ELSE IF ~to.ok
             THEN Fail([kind |-> "invalid 'to' index", pos |-> i - 1,
                        cause |-> to.cause], 1)
             ELSE IF from.v < 0 \/ from.v >= n
             THEN Fail([kind |-> "from index out of bounds",
                        idx |-> from.v, pos |-> i - 1], 1)
             ELSE IF to.v < 0 \/ to.v >= n
             THEN Fail([kind |-> "to index out of bounds",
                        idx |-> to.v, pos |-> i - 1], 1)
             ELSE IF from.v = to.v
             THEN Fail([kind |-> "self reference", idx |-> to.v, pos |-> i - 1], 1)
             ELSE RelationshipLoop_RejectSelfLoop(details, n, i + 1,
                      Append(acc, [FromIndex |-> from.v, ToIndex |-> to.v,
                                   Label |-> yr.Label]), summary)

RECURSIVE RelationshipLoop(_, _, _, _, _)
RelationshipLoop(details, n, i, acc, summary) ==
    IF i > Len(details) THEN Ok([Summary |-> summary, Details |-> acc], 1)
    ELSE LET yr == details[i]
             from == extractIndex(yr.From)
             to == extractIndex(yr.To)
         IN  IF ~from.ok
             THEN Fail([kind |-> "invalid 'from' index", pos |-> i - 1,
                        cause |-> from.cause], 1)
             ELSE IF ~to.ok
             THEN Fail([kind |-> "invalid 'to' index", pos |-> i - 1,
                        cause |-> to.cause], 1)
             ELSE IF from.v < 0 \/ from.v >= n
             THEN Fail([kind |-> "from index out of bounds",
                        idx |-> from.v, pos |-> i - 1], 1)
             ELSE IF to.v < 0 \/ to.v >= n
             THEN Fail([kind |-> "to index out of bounds",
                        idx |-> to.v, pos |-> i - 1], 1)
             ELSE RelationshipLoop(details, n, i + 1,
                      Append(acc, [FromIndex |-> from.v, ToIndex |-> to.v,
                                   Label |-> yr.Label]), summary)

\* position of the first abstraction at or after a that has a negative file
\* index, 0 if none
RECURSIVE FirstFileLookupPanic(_, _)
FirstFileLookupPanic(abstractions, a) ==
    IF a > Len(abstractions) THEN 0
    ELSE IF FirstNegative(abstractions[a].FileIndices, 1) # 0 THEN a
    ELSE FirstFileLookupPanic(abstractions, a + 1)

\* AnalyzeRelationships that rejects a document without summary and edges
AnalyzeRelationships_RejectEmpty(abstractions, gen) ==
    IF Len(abstractions) = 0 THEN Fail([kind |-> "no abstractions provided"], 0)
    ELSE IF FirstFileLookupPanic(abstractions, 1) # 0
    THEN LET a == FirstFileLookupPanic(abstractions, 1)
             fs == abstractions[a].FileIndices
         IN  Panic(fs[FirstNegative(fs, 1)])
    ELSE IF gen.kind # "ok" THEN Fail(GenError(gen), GenCalls(gen))
    ELSE IF Doc(gen).Summary = <<>> /\ Doc(gen).Details = <<>>
    THEN Fail([kind |-> "no relationships found"], 1)
    ELSE RelationshipLoop(Doc(gen).Details, Len(abstractions), 1, <<>>,
                          Doc(gen).Summary)

\* the code context is built before the generator is called: input.Files
\* [fileIdx] for every file index below len(input.Files)
AnalyzeRelationships(abstractions, gen) ==
    IF Len(abstractions) = 0 THEN Fail([kind |-> "no abstractions provided"], 0)
    ELSE IF FirstFileLookupPanic(abstractions, 1) # 0
    THEN LET a == FirstFileLookupPanic(abstractions, 1)
             fs == abstractions[a].FileIndices
         IN  Panic(fs[FirstNegative(fs, 1)])
    ELSE IF gen.kind # "ok" THEN Fail(GenError(gen), GenCalls(gen))
    ELSE RelationshipLoop(Doc(gen).Details, Len(abstractions), 1, <<>>,
                          Doc(gen).Summary)

\* ------------------------------------------------------------------------
\* ChapterOrdererService.OrderChapters
\* gen.doc is the decoded list yamlIndices of undecoded references.
\* ------------------------------------------------------------------------
\* OrderLoop without the duplicate check
RECURSIVE OrderLoop_NoDuplicateCheck(_, _, _, _, _)
OrderLoop_NoDuplicateCheck(yamlIndices, n, i, orderedIndices, seen) ==
    IF i > Len(yamlIndices) THEN [ok |-> TRUE, orderedIndices |-> orderedIndices,
                                  seen |-> seen]
    ELSE LET r == extractIndex(yamlIndices[i])
         IN  IF ~r.ok
             THEN [ok |-> FALSE,
                   err |-> [kind |-> "failed to extract index", pos |-> i - 1,
                            cause |-> r.cause]]
             ELSE IF r.v < 0 \/ r.v >= n
             THEN [ok |-> FALSE,
                   err |-> [kind |-> "index out of bounds", idx |-> r.v,
                            pos |-> i - 1]]
             ELSE OrderLoop_NoDuplicateCheck(yamlIndices, n, i + 1,
                            Append(orderedIndices, r.v), seen \cup {r.v})

\* OrderLoop preceded by a bounds check of the whole list
RECURSIVE OrderLoop_BoundsPassFirst(_, _, _, _, _)
OrderLoop_BoundsPassFirst(yamlIndices, n, i, orderedIndices, seen) ==
    LET bad == {k \in 1..Len(yamlIndices) :
                  /\ extractIndex(yamlIndices[k]).ok
                  /\ \/ extractIndex(yamlIndices[k]).v < 0
                     \/ extractIndex(yamlIndices[k]).v >= n}
    IN  IF i = 1 /\ bad # {}
        THEN LET k == CHOOSE b \in bad : \A c \in bad : b <= c
             IN  [ok |-> FALSE,
                  err |-> [kind |-> "index out of bounds",
                           idx |-> extractIndex(yamlIndices[k]).v, pos |-> k - 1]]
        ELSE IF i > Len(yamlIndices)
        THEN [ok |-> TRUE, orderedIndices |-> orderedIndices, seen |-> seen]
        ELSE LET r == extractIndex(yamlIndices[i])
             IN  IF ~r.ok
                 THEN [ok |-> FALSE,
                       err |-> [kind |-> "failed to extract index", pos |-> i - 1,
                                cause |-> r.cause]]
                 ELSE IF r.v \in seen
                 THEN [ok |-> FALSE,
                       err |-> [kind |-> "duplicate index", idx |-> r.v]]
                 ELSE OrderLoop_BoundsPassFirst(yamlIndices, n, i + 1,
                            Append(orderedIndices, r.v), seen \cup {r.v})

\* the conversion loop: resolve, bounds check, duplicate check, per entry
RECURSIVE OrderLoop(_, _, _, _, _)
OrderLoop(yamlIndices, n, i, orderedIndices, seen) ==
    IF i > Len(yamlIndices) THEN [ok |-> TRUE, orderedIndices |-> orderedIndices,
                                  seen |-> seen]
    ELSE LET r == extractIndex(yamlIndices[i])
         IN  IF ~r.ok
             THEN [ok |-> FALSE,
                   err |-> [kind |-> "failed to extract index", pos |-> i - 1,
                            cause |-> r.cause]]
             ELSE IF r.v < 0 \/ r.v >= n
             THEN [ok |-> FALSE,
                   err |-> [kind |-> "index out of bounds", idx |-> r.v,
                            pos |-> i - 1]]
             ELSE IF r.v \in seen
             THEN [ok |-> FALSE,
                   err |-> [kind |-> "duplicate index", idx |-> r.v]]
             ELSE OrderLoop(yamlIndices, n, i + 1,
                            Append(orderedIndices, r.v), seen \cup {r.v})

\* Missing that stops at the first index not in seen
RECURSIVE Missing_FirstOnly(_, _, _)
Missing_FirstOnly(n, seen, i) ==
    IF i >= n THEN <<>>
    ELSE IF i \in seen THEN Missing_FirstOnly(n, seen, i + 1) ELSE <<i>>

\* the indices 0..n-1 not in seen, ascending
RECURSIVE Missing(_, _, _)
Missing(n, seen, i) ==
    IF i >= n THEN <<>>
    ELSE (IF i \in seen THEN <<>> ELSE <<i>>) \o Missing(n, seen, i + 1)

\* the first endpoint, From before To and edge by edge from position e,
\* that is no index of n abstractions; <<>> if there is none
RECURSIVE FirstBadEndpoint(_, _, _)
FirstBadEndpoint(details, n, e) ==
    IF e > Len(details) THEN <<>>
    ELSE IF details[e].FromIndex < 0 \/ details[e].FromIndex >= n
    THEN <<details[e].FromIndex>>
    ELSE IF details[e].ToIndex < 0 \/ details[e].ToIndex >= n
    THEN <<details[e].ToIndex>>
    ELSE FirstBadEndpoint(details, n, e + 1)

\* OrderChapters without the completeness check after the loop
OrderChapters_NoCompleteness(abstractions, relationships, gen) ==
    IF Len(abstractions) = 0 THEN Fail([kind |-> "no abstractions provided"], 0)
    ELSE IF FirstBadEndpoint(relationships.Details, Len(abstractions), 1) # <<>>
    THEN Panic(FirstBadEndpoint(relationships.Details, Len(abstractions), 1)[1])
    ELSE IF gen.kind # "ok" THEN Fail(GenError(gen), GenCalls(gen))
    ELSE LET l == OrderLoop(Doc(gen), Len(abstractions), 1, <<>>, {})
         IN  IF ~l.ok THEN Fail(l.err, 1)
             ELSE Ok(l.orderedIndices, 1)

\* the relationship context is built before the generator is called:
\* input.Abstractions[rel.FromIndex] and [rel.ToIndex] for every edge
OrderChapters(abstractions, relationships, gen) ==
    IF Len(abstractions) = 0 THEN Fail([kind |-> "no abstractions provided"], 0)
    ELSE IF FirstBadEndpoint(relationships.Details, Len(abstractions), 1) # <<>>
    THEN Panic(FirstBadEndpoint(relationships.Details, Len(abstractions), 1)[1])
    ELSE IF gen.kind # "ok" THEN Fail(GenError(gen), GenCalls(gen))
    ELSE LET l == OrderLoop(Doc(gen), Len(abstractions), 1, <<>>, {})
         IN  IF ~l.ok THEN Fail(l.err, 1)
             ELSE IF Len(l.orderedIndices) # Len(abstractions)
             THEN Fail([kind |-> "missing abstractions in order",
                        missing |-> Missing(Len(abstractions), l.seen, 0)], 1)
             ELSE Ok(l.orderedIndices, 1)

\* ------------------------------------------------------------------------
\* ChapterWriterService.WriteChapter
\* input is WriteChapterInput [Abstraction, PreviousChapters, ChapterNumber];
\* gen.doc is the generator's response text.
\* ------------------------------------------------------------------------
\* the backquote character, which a TLA+ string cannot hold
Backquote == "bq"

Fence == <<Backquote, Backquote, Backquote>>

FenceMarkdown == Fence \o <<"m", "a", "r", "k", "d", "o", "w", "n">>

HasPrefix(s, p) == Len(s) >= Len(p) /\ SubSeq(s, 1, Len(p)) = p

HasSuffix(s, p) == Len(s) >= Len(p) /\ SubSeq(s, Len(s) - Len(p) + 1, Len(s)) = p

TrimPrefix(s, p) == IF HasPrefix(s, p) THEN SubSeq(s, Len(p) + 1, Len(s)) ELSE s

TrimSuffix(s, p) == IF HasSuffix(s, p) THEN SubSeq(s, 1, Len(s) - Len(p)) ELSE s

\* remove a wrapping markdown code fence from the response
CleanResponse(response) ==
    LET content == TrimSpace(response)
    IN  IF HasPrefix(content, FenceMarkdown)
        THEN TrimSpace(TrimSuffix(TrimPrefix(content, FenceMarkdown), Fence))
        ELSE IF HasPrefix(content, Fence)
        THEN TrimSpace(TrimSuffix(TrimPrefix(content, Fence), Fence))
        ELSE content

\* ------------------------------------------------------------------------
\* The YAML block of a response: the "Extract YAML block" lines of
\* AnalyzeAbstractions, AnalyzeRelationships and OrderChapters
\* ------------------------------------------------------------------------
FenceYaml == Fence \o <<"y", "a", "m", "l">>

\* strings.Index from offset k: the offset of the first occurrence of sep in
\* s at or after k, 0 if there is none
RECURSIVE Index(_, _, _)
Index(s, sep, k) ==
    IF k + Len(sep) - 1 > Len(s) THEN 0
    ELSE IF SubSeq(s, k, k + Len(sep) - 1) = sep THEN k
    ELSE Index(s, sep, k + 1)

\* strings.Contains(s, sep)
StrContains(s, sep) == Index(s, sep, 1) # 0

\* strings.Split(s, sep)[0]
SplitFirst(s, sep) ==
    IF Index(s, sep, 1) = 0 THEN s ELSE SubSeq(s, 1, Index(s, sep, 1) - 1)

\* strings.Split(s, sep)[1], for s that contains sep
SplitSecond(s, sep) ==
    SplitFirst(SubSeq(s, Index(s, sep, 1) + Len(sep), Len(s)), sep)

\* yamlContent, the text handed to yaml.Unmarshal
yamlContent(response) ==
    IF StrContains(response, FenceYaml)
    THEN SplitFirst(SplitSecond(response, FenceYaml), Fence)
    ELSE IF StrContains(response, Fence)
    THEN SplitSecond(response, Fence)
    ELSE response

\* the characters of the model that UTF-8 encodes in two and in three
\* bytes; every other character is one byte
TwoByteChars == {"U+0085", "U+00A0", "U+00C9", "U+00E9", "U+0130"}

ThreeByteChars ==
    {"U+1680", "U+2000", "U+2001", "U+2002", "U+2003", "U+2004", "U+2005",
     "U+2006", "U+2007", "U+2008", "U+2009", "U+200A", "U+2028", "U+2029",
     "U+202F", "U+205F", "U+3000", "U+212A"}

ByteLen(c) ==
    IF c \in TwoByteChars THEN 2 ELSE IF c \in ThreeByteChars THEN 3 ELSE 1

\* len(s): the length of text s in bytes
Bytes(s) ==
    Len(s) + Cardinality({k \in 1..Len(s) : s[k] \in TwoByteChars})
           + 2 * Cardinality({k \in 1..Len(s) : s[k] \in ThreeByteChars})

\* the first k bytes of character c, fewer than the character has: no
\* character, no white space, no #
Fragment(c, k) == c \o (IF k = 1 THEN "[:1]" ELSE "[:2]")

\* the number of leading characters of s that lie wholly within its first
\* n bytes: the largest k of lo..hi whose first k characters take at most n
\* bytes, found by halving
RECURSIVE WholeChars(_, _, _, _)
WholeChars(s, n, lo, hi) ==
    IF lo = hi THEN lo
    ELSE IF Bytes(SubSeq(s, 1, (lo + hi + 1) \div 2)) <= n
    THEN WholeChars(s, n, (lo + hi + 1) \div 2, hi)
    ELSE WholeChars(s, n, lo, ((lo + hi + 1) \div 2) - 1)

\* s[:n]: the first n bytes of s, for n at most len(s); the cut may fall
\* inside a character
CutBytes(s, n) ==
    LET whole == WholeChars(s, n, 0, Len(s))
        rest == n - Bytes(SubSeq(s, 1, whole))
    IN  IF rest = 0 THEN SubSeq(s, 1, whole)
        ELSE Append(SubSeq(s, 1, whole), Fragment(s[whole + 1], rest))

\* the fixed texts of the chapter prompt, each one element of the prompt;
\* the elements of a prompt, put end to end, are the text the code builds
PromptIntro == "You are writing a tutorial chapter for the \""

PromptAbstraction == "\" project.\n\nTARGET AUDIENCE: Developers new to this codebase who want to understand it quickly.\n\nABSTRACTION TO EXPLAIN:\nName: "

PromptDescription == "\nDescription: "

PromptFilesHeader == "Related code files:\n\n"

PromptFileHeader == "### File: "

PromptTruncated == "\n... (truncated for brevity)"

PromptPreviousHeader == "\n\nPREVIOUSLY COVERED CONCEPTS (for reference, don't repeat):\n"

PromptTask == "\n\nYour task: Write a comprehensive, beginner-friendly tutorial chapter explaining this abstraction.\n\nREQUIREMENTS:\n1. Use clear, simple language\n2. Include code examples from the provided files\n3. Use analogies or real-world examples where helpful\n4. Explain WHY this abstraction exists, not just WHAT it does\n5. Break down complex concepts into digestible parts\n6. Format as markdown\n\nSTRUCTURE YOUR CHAPTER:\n# "

PromptStructure == "\n\n[Brief introduction - what is this and why does it matter?]\n\n## What It Does\n\n[Clear explanation of the abstraction's purpose]\n\n## Key Code\n\n[Show relevant code snippets with explanations]\n\n## How It Works\n\n[Step-by-step explanation of the implementation]\n\n## Key Takeaways\n\n"

\* the three list lines that close the chapter structure
PromptTakeaways ==
    <<"-", " ", "[Important point 1]", "\n",
      "-", " ", "[Important point 2]", "\n",
      "-", " ", "[Important point 3]", "\n">>

PromptEnd == "\nOUTPUT: Return ONLY the markdown content, no meta-commentary.\n"

maxContentLength == 8000

\* the content of a file as the prompt shows it: cut after maxContentLength
\* bytes, with a marker, when it is longer
ShownContent(content) ==
    IF Bytes(content) > maxContentLength
    THEN Append(CutBytes(content, maxContentLength), PromptTruncated)
    ELSE content

\* the file blocks: one per file index below len(input.Files), with the
\* file's path and its content between fences
RECURSIVE FileBlocks(_, _, _)
FileBlocks(fileIndices, inputFiles, j) ==
    IF j > Len(fileIndices) THEN <<>>
    ELSE (IF fileIndices[j] >= Len(inputFiles) THEN <<>>
          ELSE <<PromptFileHeader>> \o inputFiles[fileIndices[j] + 1].Path
                   \o <<"\n">> \o Fence \o <<"\n">>
                   \o ShownContent(inputFiles[fileIndices[j] + 1].Content)
                   \o <<"\n">> \o Fence \o <<"\n", "\n">>)
         \o FileBlocks(fileIndices, inputFiles, j + 1)

\* fileContextBuilder.String()
FileContext(fileIndices, inputFiles, j) ==
    <<PromptFilesHeader>> \o FileBlocks(fileIndices, inputFiles, j)

\* the lines of the previous-chapters block, written in reverse list order
RECURSIVE PreviousLines_Reversed(_, _)
PreviousLines_Reversed(prev, j) ==
    IF j > Len(prev) THEN <<>>
    ELSE PreviousLines_Reversed(prev, j + 1)
         \o <<"-", " ">> \o prev[j].Name \o <<":", " ">> \o prev[j].Summary
         \o <<"\n">>

\* fmt.Sprintf("- %s: %s\n", prev.Name, prev.Summary) for every entry, in
\* list order
RECURSIVE PreviousLines(_, _)
PreviousLines(prev, j) ==
    IF j > Len(prev) THEN <<>>
    ELSE <<"-", " ">> \o prev[j].Name \o <<":", " ">> \o prev[j].Summary
         \o <<"\n">> \o PreviousLines(prev, j + 1)

\* previousChaptersContext: empty unless there are previous chapters
PreviousChaptersContext(prev) ==
    IF Len(prev) > 0
    THEN <<PromptPreviousHeader>> \o PreviousLines(prev, 1)
    ELSE <<>>

\* the prompt WriteChapter hands to the generator
ChapterPrompt(input) ==
    <<PromptIntro>> \o input.ProjectName
        \o <<PromptAbstraction>> \o input.Abstraction.Name
        \o <<PromptDescription>> \o input.Abstraction.Description
        \o <<"\n", "\n">>
        \o FileContext(input.Abstraction.FileIndices, input.Files, 1)
        \o <<"\n", "\n">>
        \o PreviousChaptersContext(input.PreviousChapters)
        \o <<PromptTask>> \o input.Abstraction.Name
        \o <<PromptStructure>> \o PromptTakeaways \o <<PromptEnd>>

\* WriteChapter taking the chapter title from the generator's text
WriteChapter_TitleFromResponse(input, gen) ==
    IF input.Abstraction.Name = <<>>
    THEN Fail([kind |-> "abstraction name is required"], 0)
    ELSE IF FirstNegative(input.Abstraction.FileIndices, 1) # 0
    THEN Panic(input.Abstraction.FileIndices[
                   FirstNegative(input.Abstraction.FileIndices, 1)])
    ELSE IF gen \in CallFailures THEN Fail(GenError(gen), GenCalls(gen))
    ELSE Ok([ChapterNumber |-> input.ChapterNumber,
             Title |-> SubSeq(CleanResponse(Doc(gen)), 1, 1),
             Content |-> CleanResponse(Doc(gen))], 1)

\* WriteChapter without the check of the abstraction name
WriteChapter_NoNameCheck(input, gen) ==
    IF FirstNegative(input.Abstraction.FileIndices, 1) # 0
    THEN Panic(input.Abstraction.FileIndices[
                   FirstNegative(input.Abstraction.FileIndices, 1)])
    ELSE IF gen \in CallFailures THEN Fail(GenError(gen), GenCalls(gen))
    ELSE Ok([ChapterNumber |-> input.ChapterNumber,
             Title |-> input.Abstraction.Name,
             Content |-> CleanResponse(Doc(gen))], 1)

WriteChapter(input, gen) ==
    IF input.Abstraction.Name = <<>>
    THEN Fail([kind |-> "abstraction name is required"], 0)
    ELSE IF FirstNegative(input.Abstraction.FileIndices, 1) # 0
    THEN Panic(input.Abstraction.FileIndices[
                   FirstNegative(input.Abstraction.FileIndices, 1)])
    ELSE IF gen \in CallFailures THEN Fail(GenError(gen), GenCalls(gen))
    ELSE Ok([ChapterNumber |-> input.ChapterNumber,
             Title |-> input.Abstraction.Name,
             Content |-> CleanResponse(Doc(gen))], 1)

\* ------------------------------------------------------------------------
\* utils.SanitizeFilename
\* ------------------------------------------------------------------------
UpperLetters == <<"A", "B", "C", "D", "E", "F", "G", "H", "I", "J", "K", "L", "M",
                  "N", "O", "P", "Q", "R", "S", "T", "U", "V", "W", "X", "Y", "Z">>

LowerLetters == <<"a", "b", "c", "d", "e", "f", "g", "h", "i", "j", "k", "l", "m",
                  "n", "o", "p", "q", "r", "s", "t", "u", "v", "w", "x", "y", "z">>

\* letters outside ASCII and their lower case: the Kelvin sign and the
\* dotted capital I are the two whose lower case is an ASCII letter; the
\* capital E with acute stands for the others, whose lower case is not
NonAsciiUpper == <<"U+212A", "U+0130", "U+00C9">>

NonAsciiLower == <<"k", "i", "U+00E9">>

\* strings.ToLower on one character
ToLowerChar(c) ==
    IF \E k \in 1..26 : UpperLetters[k] = c
    THEN LowerLetters[CHOOSE k \in 1..26 : UpperLetters[k] = c]
    ELSE IF \E k \in 1..Len(NonAsciiUpper) : NonAsciiUpper[k] = c
    THEN NonAsciiLower[CHOOSE k \in 1..Len(NonAsciiUpper) : NonAsciiUpper[k] = c]
    ELSE c

\* the strings.Map callback: keep [a-z0-9], everything else becomes an underscore
MapChar(c) ==
    IF (\E k \in 1..26 : LowerLetters[k] = c) \/ c \in Digits THEN c ELSE "_"

\* one pass of strings.ReplaceAll(name, "__", "_"): non-overlapping, left to right
RECURSIVE ReplaceDouble(_)
ReplaceDouble(s) ==
    IF Len(s) < 2 THEN s
    ELSE IF s[1] = "_" /\ s[2] = "_"
         THEN <<"_">> \o ReplaceDouble(SubSeq(s, 3, Len(s)))
         ELSE <<s[1]>> \o ReplaceDouble(Tail(s))

HasDouble(s) == \E k \in 1..(Len(s) - 1) : s[k] = "_" /\ s[k + 1] = "_"

\* Collapse with a single ReplaceAll pass instead of the loop
Collapse_SinglePass(s) == ReplaceDouble(s)

\* for strings.Contains(name, "__") { name = strings.ReplaceAll(...) }
RECURSIVE Collapse(_)
Collapse(s) == IF HasDouble(s) THEN Collapse(ReplaceDouble(s)) ELSE s

\* strings.Trim(name, "_")
RECURSIVE TrimUnderscores(_)
TrimUnderscores(s) ==
    IF s = <<>> THEN s
    ELSE IF Head(s) = "_" THEN TrimUnderscores(Tail(s))
    ELSE IF s[Len(s)] = "_" THEN TrimUnderscores(SubSeq(s, 1, Len(s) - 1))
    ELSE s

SanitizeFilename(name) ==
    TrimUnderscores(Collapse([k \in 1..Len(name) |-> MapChar(ToLowerChar(name[k]))]))

\* ------------------------------------------------------------------------
\* FileWriterService.WriteMarkdownFiles
\* fs is the file system's behaviour during the call: mkdirOk, failAt, the
\* 1-based position of the chapter whose os.WriteFile fails (0: none), and
\* left, whether the failing os.WriteFile had created or truncated its file
\* before it failed.
\* The outcome carries disk, the paths of the files the call has written.
\* ------------------------------------------------------------------------
DigitChars == <<"0", "1", "2", "3", "4", "5", "6", "7", "8", "9">>

\* decimal digits of a natural number
RECURSIVE Itoa(_)
Itoa(n) == IF n < 10 THEN <<DigitChars[n + 1]>>
           ELSE Itoa(n \div 10) \o <<DigitChars[(n % 10) + 1]>>

\* the file name without the chapter number
ChapterFilename_NoNumber(chapter) ==
    SanitizeFilename(chapter.Title) \o <<".", "m", "d">>

\* fmt.Sprintf("%02d_%s.md", chapter.ChapterNumber, sanitizedTitle)
ChapterFilename(chapter) ==
    (IF chapter.ChapterNumber < 10 THEN <<"0">> ELSE <<>>)
        \o Itoa(chapter.ChapterNumber) \o <<"_">>
        \o SanitizeFilename(chapter.Title) \o <<".", "m", "d">>

\* filepath.Join(input.OutputDir, filename)
FilePath(outputDir, chapter) == [dir |-> outputDir, name |-> ChapterFilename(chapter)]

RECURSIVE WriteLoop(_, _, _, _, _)
WriteLoop(outputDir, chapters, fs, k, filesWritten) ==
    IF k > Len(chapters)
    THEN [res |-> Ok([FilesWritten |-> filesWritten], 0), disk |-> filesWritten]
    ELSE IF k = fs.failAt
    THEN [res |-> Fail([kind |-> "failed to write file",
                        name |-> ChapterFilename(chapters[k])], 0),
          disk |-> IF fs.left
                   THEN Append(filesWritten, FilePath(outputDir, chapters[k]))
                   ELSE filesWritten]
    ELSE WriteLoop(outputDir, chapters, fs, k + 1,
                   Append(filesWritten, FilePath(outputDir, chapters[k])))

WriteMarkdownFiles(outputDir, chapters, fs) ==
    IF outputDir = ""
    THEN [res |-> Fail([kind |-> "output_dir is required"], 0), disk |-> <<>>]
    ELSE IF ~fs.mkdirOk
    THEN [res |-> Fail([kind |-> "failed to create output directory"], 0),
          disk |-> <<>>]
    ELSE WriteLoop(outputDir, chapters, fs, 1, <<>>)

\* ------------------------------------------------------------------------
\* TutorialWorkflow.Run: state
\* ------------------------------------------------------------------------
VARIABLES
    input,             \* TutorialWorkflowInput [LocalRepoPath, OutputDir]
    pc,                \* position of Run in the pipeline
    files,             \* filesOutput.Files
    abstractions,      \* abstractionsOutput.Abstractions
    relationships,     \* relationships
    plan,              \* orderOutput.OrderedIndices
    chapters,          \* chapters, one slot per plan position
    previousChapters,  \* the accumulated chapter summaries
    i,                 \* number of completed iterations of the chapter loop
    err,               \* the error Run returned, [stage, err]
    result,            \* the WriteMarkdownFilesOutput Run returned
    calls,             \* history: the service calls Run has made, in order
    llmCalls,          \* history: number of generator calls made so far
    proposed,          \* history: what the generator answered the ChapterOrderer
    answered,          \* history: what the generator answered the RelationshipAnalyzer
    disk,              \* the paths of the files written to the output directory
    unit               \* a single service invocation [stage, in, out]

vars == <<input, pc, files, abstractions, relationships, plan, chapters,
          previousChapters, i, err, result, calls, llmCalls, proposed, answered,
          disk, unit>>

runVars == <<input, pc, files, abstractions, relationships, plan, chapters,
             previousChapters, i, err, result, calls, llmCalls, proposed,
             answered, disk>>

NoErr == [stage |-> "none", err |-> [kind |-> "none"]]

NoRelationships == [Summary |-> <<>>, Details |-> <<>>]

NoResult == [FilesWritten |-> <<>>]

NoUnit == [stage |-> "none"]

\* the zero value of types.WriteChapterOutput
ZeroChapter == [ChapterNumber |-> 0, Title |-> <<>>, Content |-> <<>>]

\* ------------------------------------------------------------------------
\* Values the collaborators may return to a run
\* ------------------------------------------------------------------------
SeqUpTo(S, n) == UNION {[1..k -> S] : k \in 0..n}

\* the text of n characters c
Repeat(c, n) == [k \in 1..n |-> c]

PathNames == <<"a", "b", "c", "d">>

RepoPaths == {"", "repo"}

OutputDirs == {"", "out"}

\* utils.WalkDirectory: an error, or the paths of 0..MaxCorpus files
WalkOutcomes ==
    {[ok |-> FALSE, paths |-> <<>>]}
        \cup {[ok |-> TRUE, paths |-> [k \in 1..n |-> <<PathNames[k]>>]] :
                 n \in 0..MaxCorpus}

Names == {<<>>, <<"A">>, <<"a", " ">>}

\* file index lists an abstraction of the response may carry: the last file
\* of the corpus, or the index one past it
FileLists(nfiles) == {<<nfiles - 1>>, <<nfiles>>, <<0 - 1>>}

\* the name a generator gives the abstraction at position k when it names it
NameAt(k) == IF k % 2 = 1 THEN <<"A">> ELSE <<"a", " ">>

\* the abstraction lists a generator may answer a run: every entry is named
\* after its position or left unnamed
AbstractionDocs(nfiles) ==
    {ya \in SeqUpTo([Name : Names, Files : FileLists(nfiles)], MaxAbs) :
        \A k \in 1..Len(ya) : ya[k].Name \in {<<>>, NameAt(k)}}

\* undecoded references: integers up to one past the valid range, an
\* annotated string, a string that is no number
Refs(n) ==
    {IntRef(k) : k \in 0..n}
        \cup {StrRef(<<"0", " ", "#", " ", "A">>), StrRef(<<"x">>)}

\* orders whose entries are all integers of the valid range
PlainOrders(n) == SeqUpTo({IntRef(k) : k \in 0..(n - 1)}, MaxOrder)

\* undecoded edge endpoints: the first abstraction, or the index one past
\* the last
EdgeRefs(n) == {IntRef(0), IntRef(n)}

\* the zero value of yamlRelationshipData, which yaml.Unmarshal leaves
\* untouched when the text holds no document or a document without keys
EmptyRelationshipDoc == [Summary |-> <<>>, Details |-> <<>>]

RelationshipDocs(n) ==
    [Summary : {<<"s">>},
     Details : SeqUpTo([From : EdgeRefs(n), To : EdgeRefs(n), Label : {<<"u">>}],
                       MaxEdges)]
        \cup {EmptyRelationshipDoc}

\* the orders a generator may propose to a run: the plain orders, and the
\* plain orders with one entry replaced by any other reference
OrderDocs(n) ==
    PlainOrders(n)
        \cup UNION {{[d EXCEPT ![p] = r] : p \in 1..Len(d), r \in Refs(n)} :
                      d \in PlainOrders(n)}

ChapterResponses == {<<"#", " ", "T", " ">>, Fence \o <<"x">> \o Fence}

FsOutcomes(n) ==
    {[mkdirOk |-> FALSE, failAt |-> 0, left |-> FALSE],
     [mkdirOk |-> TRUE, failAt |-> 0, left |-> FALSE]}
        \cup {[mkdirOk |-> TRUE, failAt |-> k, left |-> l] :
                 k \in 1..n, l \in BOOLEAN}

\* ------------------------------------------------------------------------
\* TutorialWorkflow.Run: the steps
\* ------------------------------------------------------------------------
\* Run going on although its own check of the output failed
Advance_IgnoreValidation(r, valid, next) == IF r.ok THEN next ELSE "Failed"

\* Run going on although the call returned an error
Advance_IgnoreError(r, valid, next) == IF valid THEN next ELSE "Failed"

\* if err != nil { return ... }: Run goes on to next only when the call
\* succeeded and its output passed Run's own check
Advance(r, valid, next) == IF r.ok /\ valid THEN next ELSE "Failed"

\* the error Run returns for a stage
StageError(stage, r, msg) ==
    IF ~r.ok THEN [stage |-> stage, err |-> r.err]
    ELSE [stage |-> stage, err |-> [kind |-> msg]]

\* one entry of the call history: the service, its input, whether the
\* service returned without error, and the generator calls it made
Call(svc, r, arg) == [svc |-> svc, ok |-> r.ok, arg |-> arg, llm |-> r.llm]

Init ==
    /\ input \in [LocalRepoPath : RepoPaths, OutputDir : OutputDirs]
    /\ pc = "Init"
    /\ files = <<>>
    /\ abstractions = <<>>
    /\ relationships = NoRelationships
    /\ plan = <<>>
    /\ chapters = <<>>
    /\ previousChapters = <<>>
    /\ i = 0
    /\ err = NoErr
    /\ result = NoResult
    /\ calls = <<>>
    /\ llmCalls = 0
    /\ proposed = GenFail("none")
    /\ answered = GenFail("none")
    /\ disk = <<>>
    /\ unit = NoUnit

\* Step 1: Read Files
ReadFilesStep ==
    /\ pc = "Init"
    /\ \E walk \in WalkOutcomes :
         LET r == ReadFiles(input.LocalRepoPath, walk)
             valid == Len(r.out) # 0
             to == Advance(r, valid, "CorpusReady")
         IN  /\ pc' = to
             /\ files' = IF r.ok THEN r.out ELSE files
             /\ err' = IF to = "Failed"
                       THEN StageError("read files", r, "no files found in repository")
                       ELSE err
             /\ calls' = Append(calls, Call("FileReader", r, input.LocalRepoPath))
             /\ llmCalls' = llmCalls + r.llm
    /\ UNCHANGED <<input, abstractions, relationships, plan, chapters,
                   previousChapters, i, result, proposed, answered, disk, unit>>

\* Step 2: Identify Abstractions
AnalyzeAbstractionsStep ==
    /\ pc = "CorpusReady"
    /\ \E gen \in GenFailures \cup GenOks(AbstractionDocs(Len(files))) :
         LET r == AnalyzeAbstractions(files, DefaultMaxAbstractions, gen)
             valid == Len(r.out) # 0
             to == Advance(r, valid, "AbstractionsReady")
         IN  /\ pc' = to
             /\ abstractions' = IF r.ok THEN r.out ELSE abstractions
             /\ err' = IF to = "Failed"
                       THEN StageError("analyze abstractions", r,
                                       "no abstractions identified")
                       ELSE err
             /\ calls' = Append(calls, Call("AbstractionAnalyzer", r, files))
             /\ llmCalls' = llmCalls + r.llm
    /\ UNCHANGED <<input, files, relationships, plan, chapters,
                   previousChapters, i, result, proposed, answered, disk, unit>>

\* Step 3: Analyze Relationships
AnalyzeRelationshipsStep ==
    /\ pc = "AbstractionsReady"
    /\ \E gen \in GenFailures \cup GenOks(RelationshipDocs(Len(abstractions))) :
         LET r == AnalyzeRelationships(abstractions, gen)
             to == Advance(r, TRUE, "RelationshipsReady")
         IN  /\ pc' = to
             /\ relationships' = IF r.ok THEN r.out ELSE relationships
             /\ err' = IF to = "Failed"
                       THEN StageError("analyze relationships", r, "")
                       ELSE err
             /\ calls' = Append(calls, Call("RelationshipAnalyzer", r, abstractions))
             /\ llmCalls' = llmCalls + r.llm
             /\ answered' = gen
    /\ UNCHANGED <<input, files, abstractions, plan, chapters,
                   previousChapters, i, result, proposed, disk, unit>>

\* Step 4: Order Chapters; on success the chapter slots are allocated
OrderChaptersStep ==
    /\ pc = "RelationshipsReady"
    /\ \E gen \in GenFailures \cup GenOks(OrderDocs(Len(abstractions))) :
         LET r == OrderChapters(abstractions, relationships, gen)
             to == Advance(r, TRUE, "PlanReady")
         IN  /\ pc' = to
             /\ plan' = IF r.ok THEN r.out ELSE plan
             /\ chapters' = IF to = "Failed" THEN chapters
                            ELSE [k \in 1..Len(plan') |-> ZeroChapter]
             /\ err' = IF to = "Failed"
                       THEN StageError("order chapters", r, "")
                       ELSE err
             /\ calls' = Append(calls, Call("ChapterOrderer", r, abstractions))
             /\ proposed' = gen
             /\ llmCalls' = llmCalls + r.llm
    /\ UNCHANGED <<input, files, abstractions, relationships,
                   previousChapters, i, result, answered, disk, unit>>

\* strings.ReplaceAll(summary, "#", "")
RemoveChar(s, c) == SelectSeq(s, LAMBDA x : x # c)

\* the summary Run derives from a chapter's content
Summarize(content) ==
    LET cut == IF Bytes(content) > SummaryLimit
               THEN CutBytes(content, SummaryLimit) \o <<".", ".", ".">>
               ELSE content
    IN  TrimSpace(RemoveChar(cut, "#"))

\* a WriteChapterInput built without the accumulated summaries
ChapterInput_NoContext(abs, prev, k, absIndex) ==
    [Abstraction |-> abs[absIndex + 1], PreviousChapters |-> <<>>,
     ChapterNumber |-> k + 1]

\* the WriteChapterInput of loop iteration k (0-based), for plan entry absIndex
ChapterInput(abs, prev, k, absIndex) ==
    [Abstraction |-> abs[absIndex + 1], PreviousChapters |-> prev,
     ChapterNumber |-> k + 1]

\* previousChapters = append(previousChapters, ChapterSummary{...})
NextPreviousChapters(prev, chapterOutput) ==
    Append(prev, [Name |-> chapterOutput.Title,
                  Summary |-> Summarize(chapterOutput.Content)])

\* Step 5: one iteration of the chapter loop
WriteChapterStep ==
    /\ pc \in {"PlanReady", "Composing"}
    /\ i < Len(plan)
    /\ \E gen \in CallFailures \cup GenOks(ChapterResponses) :
         LET chapterInput == ChapterInput(abstractions, previousChapters, i, plan[i + 1])
             r == WriteChapter(chapterInput, gen)
             to == Advance(r, TRUE, "Composing")
         IN  /\ pc' = to
             /\ chapters' = IF r.ok THEN [chapters EXCEPT ![i + 1] = r.out]
                            ELSE chapters
             /\ previousChapters' = IF r.ok
                                    THEN NextPreviousChapters(previousChapters, r.out)
                                    ELSE previousChapters
             /\ i' = IF to = "Failed" THEN i ELSE i + 1
             /\ err' = IF to = "Failed"
                       THEN StageError("write chapter", r, "")
                       ELSE err
             /\ calls' = Append(calls, Call("ChapterWriter", r, chapterInput))
             /\ llmCalls' = llmCalls + r.llm
    /\ UNCHANGED <<input, files, abstractions, relationships, plan, result,
                   proposed, answered, disk, unit>>

\* WriteFilesStep of a chapter loop that stops one plan entry early
WriteFilesStep_BeforeLastChapter ==
    /\ pc \in {"PlanReady", "Composing"}
    /\ i >= Len(plan) - 1
    /\ \E fs \in FsOutcomes(Len(chapters)) :
         LET w == WriteMarkdownFiles(input.OutputDir, chapters, fs)
             to == Advance(w.res, TRUE, "Done")
         IN  /\ pc' = to
             /\ disk' = disk \o w.disk
             /\ result' = IF w.res.ok THEN w.res.out ELSE result
             /\ err' = IF to = "Failed"
                       THEN StageError("write markdown files", w.res, "")
                       ELSE err
             /\ calls' = Append(calls, Call("FileWriter", w.res, chapters))
             /\ llmCalls' = llmCalls + w.res.llm
    /\ UNCHANGED <<input, files, abstractions, relationships, plan, chapters,
                   previousChapters, i, proposed, answered, unit>>

\* Step 6: Write Files
WriteFilesStep ==
    /\ pc \in {"PlanReady", "Composing"}
    /\ i = Len(plan)
    /\ \E fs \in FsOutcomes(Len(chapters)) :
         LET w == WriteMarkdownFiles(input.OutputDir, chapters, fs)
             to == Advance(w.res, TRUE, "Done")
         IN  /\ pc' = to
             /\ disk' = disk \o w.disk
             /\ result' = IF w.res.ok THEN w.res.out ELSE result
             /\ err' = IF to = "Failed"
                       THEN StageError("write markdown files", w.res, "")
                       ELSE err
             /\ calls' = Append(calls, Call("FileWriter", w.res, chapters))
             /\ llmCalls' = llmCalls + w.res.llm
    /\ UNCHANGED <<input, files, abstractions, relationships, plan, chapters,
                   previousChapters, i, proposed, answered, unit>>

Next ==
    \/ ReadFilesStep
    \/ AnalyzeAbstractionsStep
    \/ AnalyzeRelationshipsStep
    \/ OrderChaptersStep
    \/ WriteChapterStep
    \/ WriteFilesStep

Spec == Init /\ [][Next]_vars

\* ------------------------------------------------------------------------
\* Single invocations of the analysis services, on inputs a caller other
\* than Run may pass (any ceiling, any abstraction count)
\* ------------------------------------------------------------------------
UnitFiles(nfiles) == [k \in 1..nfiles |-> [Index |-> k - 1, Path |-> <<PathNames[k]>>]]

UnitAbstractions(n) ==
    [k \in 1..n |-> [Index |-> k - 1, Name |-> <<"A">>, FileIndices |-> <<>>]]

UnitNames == {<<"A">>, <<"B">>}

UnitFileLists(nfiles) ==
    {<<>>, <<0 - 1>>, <<nfiles>>, <<nfiles - 1>>, <<0, nfiles - 1>>,
     <<nfiles - 1, nfiles>>}

UnitAbstractionDocs(nfiles) ==
    SeqUpTo([Name : UnitNames, Files : UnitFileLists(nfiles)], MaxAbs)

Ceilings == (0 - 1)..(MaxAbs + 1)

\* undecoded references: integers around the valid range, annotated and
\* padded strings, a string that is no number, a value of another type
UnitRefs(n) ==
    {IntRef(k) : k \in (0 - 1)..n}
        \cup {StrRef(<<"1", " ", "#", " ", "B">>), StrRef(<<" ", "0">>),
              StrRef(<<"x">>), OtherRef}

\* edge lists between the first and the last abstraction, with two labels
UnitLabelledEdges(n) ==
    SeqUpTo([From : {IntRef(0), IntRef(n - 1)}, To : {IntRef(0), IntRef(n - 1)},
             Label : {<<"u">>, <<"v">>}], MaxEdges + 1)

\* edge endpoints: integers at and beyond both ends of the valid range, an
\* annotated string, a string that is no number
UnitEdgeRefs(n) ==
    {IntRef(0 - 1), IntRef(0), IntRef(n - 1), IntRef(n),
     StrRef(<<"1", " ", "#", " ", "B">>), StrRef(<<"x">>)}

UnitRelationshipDocs(n) ==
    [Summary : {<<"s">>},
     Details : SeqUpTo([From : UnitEdgeRefs(n), To : UnitEdgeRefs(n),
                        Label : {<<"u">>}], MaxEdges + 1)
                 \cup UnitLabelledEdges(n)]

\* the validated relationships a caller passes to OrderChapters
UnitRelationships(n) ==
    [Summary |-> <<"s">>,
     Details |-> IF n = 0 THEN <<>>
                 ELSE <<[FromIndex |-> 0, ToIndex |-> n - 1, Label |-> <<"u">>]>>]

UnitOrderDocs(n) == SeqUpTo(UnitRefs(n), MaxOrder)

UnitInit ==
    /\ input = [LocalRepoPath |-> "repo", OutputDir |-> "out"]
    /\ pc = "Init"
    /\ files = <<>>
    /\ abstractions = <<>>
    /\ relationships = NoRelationships
    /\ plan = <<>>
    /\ chapters = <<>>
    /\ previousChapters = <<>>
    /\ i = 0
    /\ err = NoErr
    /\ result = NoResult
    /\ calls = <<>>
    /\ llmCalls = 0
    /\ proposed = GenFail("none")
    /\ answered = GenFail("none")
    /\ disk = <<>>
    /\ unit = [stage |-> "idle"]

InvokeAnalyzeAbstractions ==
    /\ unit.stage = "idle"
    /\ \E nfiles \in 0..MaxCorpus, ceiling \in Ceilings :
         \E gen \in GenFailures \cup GenOks(UnitAbstractionDocs(nfiles)) :
           unit' = [stage |-> "AnalyzeAbstractions", nfiles |-> nfiles,
                    ceiling |-> ceiling, gen |-> gen,
                    out |-> AnalyzeAbstractions(UnitFiles(nfiles), ceiling, gen)]
    /\ UNCHANGED runVars

InvokeAnalyzeRelationships ==
    /\ unit.stage = "idle"
    /\ \E n \in 0..MaxAbs :
         \E gen \in GenFailures \cup GenOks(UnitRelationshipDocs(n)) :
           unit' = [stage |-> "AnalyzeRelationships", n |-> n, gen |-> gen,
                    out |-> AnalyzeRelationships(UnitAbstractions(n), gen)]
    /\ UNCHANGED runVars

InvokeOrderChapters ==
    /\ unit.stage = "idle"
    /\ \E n \in 0..MaxAbs :
         \E gen \in GenFailures \cup GenOks(UnitOrderDocs(n)) :
           unit' = [stage |-> "OrderChapters", n |-> n, gen |-> gen,
                    out |-> OrderChapters(UnitAbstractions(n),
                                          UnitRelationships(n), gen)]
    /\ UNCHANGED runVars

\* the decimal text of an integer, as %d prints it
FormatInt(n) == IF n < 0 THEN <<"-">> \o Itoa(0 - n) ELSE Itoa(n)

\* texts a generator may put after the # of an annotated reference
Trailings == {<<>>, <<" ", "A">>, <<"7">>, <<" ", "B", " ", "#", "2">>}

\* the annotated forms "n # text" of integer n, with or without the space
\* before the #
AnnotatedTexts(n) ==
    {FormatInt(n) \o pad \o <<"#">> \o t : pad \in {<<>>, <<" ">>, <<"U+000B">>}, t \in Trailings}

\* decoded values that are no integer and hold no integer before the first #
InvalidReferences ==
    {OtherRef, StrRef(<<>>), StrRef(<<"x">>), StrRef(<<"#", " ", "3">>),
     StrRef(<<"x", " ", "#", " ", "3">>), StrRef(<<"1", " ", "2">>),
     StrRef(<<"1", ".", "5">>), StrRef(<<"-">>),
     StrRef(<<"9", "2", "2", "3", "3", "7", "2", "0", "3", "6", "8", "5", "4",
              "7", "7", "5", "8", "0", "8">>),
     StrRef(<<"-", "9", "9", "9", "9", "9", "9", "9", "9", "9", "9", "9", "9",
              "9", "9", "9", "9", "9", "9", "9", "9">>),
     StrRef(<<"9", "9", "9", "9", "9", "9", "9", "9", "9", "9", "9", "9", "9",
              "9", "9", "9", "9", "9", "9", "9", "x">>)}

\* the decoded values that write integer n in the given form
ResolverInputs(n, form) ==
    CASE form = "int" -> {IntRef(n)}
      [] form = "string" -> {StrRef(FormatInt(n)), StrRef(<<" ">> \o FormatInt(n)),
                             StrRef(<<"\f">> \o FormatInt(n) \o <<"U+00A0">>)}
      [] form = "annotated" -> {StrRef(t) : t \in AnnotatedTexts(n)}
      [] OTHER -> InvalidReferences

ReferenceForms == {"int", "string", "annotated", "invalid"}

InvokeExtractIndex ==
    /\ unit.stage = "idle"
    /\ \E n \in (0 - MaxRefValue)..MaxRefValue, form \in ReferenceForms :
         \E value \in ResolverInputs(n, form) :
           unit' = [stage |-> "extractIndex", n |-> n, form |-> form,
                    value |-> value, out |-> extractIndex(value)]
    /\ UNCHANGED runVars

\* the response of each stage that holds reference ref, for n abstractions
\* (or files): the only file index of the only abstraction, the endpoint of
\* the only edge, or the first entry of an order that goes on with 1..n-1
ReferenceOutcome(where, n, ref) ==
    CASE where = "files" ->
            AnalyzeAbstractions(UnitFiles(n), DefaultMaxAbstractions,
                UnmarshalAbstractions(<<[Name |-> <<"A">>, Files |-> <<ref>>]>>))
      [] where = "from" ->
            AnalyzeRelationships(UnitAbstractions(n),
                GenOk([Summary |-> <<"s">>,
                       Details |-> <<[From |-> ref, To |-> IntRef(0),
                                      Label |-> <<"u">>]>>]))
      [] where = "to" ->
            AnalyzeRelationships(UnitAbstractions(n),
                GenOk([Summary |-> <<"s">>,
                       Details |-> <<[From |-> IntRef(0), To |-> ref,
                                      Label |-> <<"u">>]>>]))
      [] where = "plan" ->
            OrderChapters(UnitAbstractions(n), UnitRelationships(n),
                GenOk(<<ref>> \o [j \in 1..(n - 1) |-> IntRef(j)]))

ReferencePlaces == {"files", "from", "to", "plan"}

\* one index k handed to a stage twice: as a bare integer and as an
\* annotated string
InvokeWithReference ==
    /\ unit.stage = "idle"
    /\ \E where \in ReferencePlaces, n \in 1..MaxAbs, k \in (0 - 1)..MaxAbs :
         \E text \in AnnotatedTexts(k) :
           unit' = [stage |-> "Reference", where |-> where, n |-> n, k |-> k,
                    text |-> text,
                    bare |-> ReferenceOutcome(where, n, IntRef(k)),
                    annotated |-> ReferenceOutcome(where, n, StrRef(text))]
    /\ UNCHANGED runVars

UnitSummaries == {<<>>, <<"s">>, <<"T", " ", "x">>}

\* the one file of a WriteChapterInput, with content
ChapterFiles(content) == <<[Path |-> <<PathNames[1]>>, Content |-> content]>>

\* short file contents: one of them names abstraction B
UnitContents == {<<"x">>, <<"u", " ", "B">>}

\* long file contents: one of exactly maxContentLength bytes and two longer
\* ones, the second with a two-byte character across the cut
LongContents ==
    {Repeat("a", maxContentLength),
     Repeat("a", maxContentLength + 1),
     Repeat("a", maxContentLength - 1) \o <<"U+00E9", "B">>}

\* the WriteChapterInput values a caller may pass: every combination of
\* name, file indices and previous chapters with one description, project
\* name and file content; for abstraction A with no or one previous
\* chapter, the other descriptions, project names and short file contents;
\* and abstraction A with each long file content
UnitChapterInputs ==
    [Abstraction : [Index : {0}, Name : UnitNames \cup {<<>>},
                    Description : {<<"d">>},
                    FileIndices : {<<>>, <<0>>, <<1, 0>>, <<1, 0 - 1>>}],
     Files : {ChapterFiles(<<"x">>)},
     PreviousChapters : SeqUpTo([Name : UnitNames, Summary : UnitSummaries], MaxAbs),
     ProjectName : {<<"p">>},
     ChapterNumber : {1}]
        \cup
    [Abstraction : [Index : {0}, Name : {<<"A">>},
                    Description : {<<>>, <<"B">>, <<PromptPreviousHeader>>},
                    FileIndices : {<<0>>, <<0, 0>>}],
     Files : {ChapterFiles(c) : c \in UnitContents},
     PreviousChapters : {<<>>, <<[Name |-> <<"B">>, Summary |-> <<"s">>]>>},
     ProjectName : {<<"p">>, <<"B">>},
     ChapterNumber : {1}]
        \cup
    [Abstraction : [Index : {0}, Name : {<<"A">>}, Description : {<<"d">>},
                    FileIndices : {<<0>>}],
     Files : {ChapterFiles(c) : c \in LongContents},
     PreviousChapters : {<<>>},
     ProjectName : {<<"p">>},
     ChapterNumber : {1}]

\* one WriteChapter invocation; prompt is the prompt the generator received,
\* if it was called
InvokeWriteChapter ==
    /\ unit.stage = "idle"
    /\ \E in \in UnitChapterInputs, gen \in CallFailures \cup GenOks(ChapterResponses) :
         LET out == WriteChapter(in, gen)
         IN  unit' = [stage |-> "WriteChapter", input |-> in, gen |-> gen,
                      prompt |-> IF out.llm = 0 THEN <<>> ELSE ChapterPrompt(in),
                      out |-> out]
    /\ UNCHANGED runVars

UnitNext ==
    \/ InvokeAnalyzeAbstractions
    \/ InvokeAnalyzeRelationships
    \/ InvokeOrderChapters
    \/ InvokeExtractIndex
    \/ InvokeWithReference
    \/ InvokeWriteChapter

UnitSpec == UnitInit /\ [][UnitNext]_vars

\* ------------------------------------------------------------------------
\* Single invocations of the text functions
\* ------------------------------------------------------------------------
TitleChars == {"A", "b", "1", "_", "-"}

\* the chapter titles a caller may pass, with the two documented examples
Titles ==
    SeqUpTo(TitleChars, MaxTitle)
        \cup {<<"N", "o", "d", "e", " ", "A", "b", "s", "t", "r", "a", "c", "t",
                "i", "o", "n", "!">>,
              <<"_", "_", "A", "-", "-", "B", "_", "_">>,
              <<"U+0130", "s", "U+00C9", "U+212A">>}

\* one SanitizeFilename call
InvokeSanitizeFilename ==
    /\ unit.stage = "idle"
    /\ \E title \in Titles :
         unit' = [stage |-> "SanitizeFilename", title |-> title,
                  out |-> SanitizeFilename(title),
                  again |-> SanitizeFilename(SanitizeFilename(title))]
    /\ UNCHANGED runVars

\* the pieces a generator response is made of: a fence, the yaml tag,
\* another tag letter, a line break, a content character
ResponsePieces == {Fence, <<"y", "a", "m", "l">>, <<"t">>, <<"\n">>, <<"0">>}

RECURSIVE Responses(_)
Responses(n) ==
    IF n = 0 THEN {<<>>}
    ELSE LET shorter == Responses(n - 1)
         IN  shorter \cup {r \o piece : r \in shorter, piece \in ResponsePieces}

\* the response handling of one analysis call, up to yaml.Unmarshal
InvokeYamlContent ==
    /\ unit.stage = "idle"
    /\ \E response \in Responses(MaxPieces) :
         unit' = [stage |-> "yamlContent", response |-> response,
                  out |-> yamlContent(response)]
    /\ UNCHANGED runVars

\* n times the character c

\* chapter contents around the summary limit, in one-byte and in two-byte
\* characters
SummaryContents ==
    {Repeat("a", n) : n \in (SummaryLimit - 1)..(SummaryLimit + 1)}
        \cup {Repeat("U+00E9", n) :
                 n \in ((SummaryLimit \div 2) - 1)..((SummaryLimit \div 2) + 1)}
        \cup {Repeat("a", SummaryLimit - 1) \o <<"U+00E9">>,
              <<"#", " ">> \o Repeat("a", SummaryLimit - 3) \o <<" ", "b">>,
              <<"#", " ", "T", " ">>, <<"\f", "x", "U+00A0">>}

\* the summary of one chapter
InvokeSummarize ==
    /\ unit.stage = "idle"
    /\ \E content \in SummaryContents :
         unit' = [stage |-> "Summarize", content |-> content,
                  out |-> Summarize(content)]
    /\ UNCHANGED runVars

TextNext ==
    \/ InvokeSanitizeFilename
    \/ InvokeYamlContent
    \/ InvokeSummarize

TextSpec == UnitInit /\ [][TextNext]_vars

\* ------------------------------------------------------------------------
\* Properties
\* ------------------------------------------------------------------------
InRange(v, n) == v >= 0 /\ v < n

\* p has length n and holds each of 0..n-1 exactly once
IsPermutation(p, n) ==
    /\ Len(p) = n
    /\ \A v \in 0..(n - 1) : Cardinality({k \in 1..Len(p) : p[k] = v}) = 1

ChapterWriterCalls == {c \in 1..Len(calls) : calls[c].svc = "ChapterWriter"}

\* C1: whenever OrderChapters has returned successfully for N abstractions,
\* and so in every run that has reached chapter composition, the plan has
\* length N and holds every index 0..N-1 exactly once.
C1_PlanIsPermutation ==
    /\ ((\E c \in 1..Len(calls) : calls[c].svc = "ChapterOrderer" /\ calls[c].ok)
           => IsPermutation(plan, Len(abstractions)))
    /\ (pc \in {"PlanReady", "Composing", "Done"} \/ ChapterWriterCalls # {}
           => IsPermutation(plan, Len(abstractions)))

C1_Witness == pc = "Done" /\ plan = <<1, 0>> /\ Len(abstractions) = 2

\* the summary entry Run derives for plan position k
PositionSummary(k) ==
    [Name |-> abstractions[plan[k] + 1].Name,
     Summary |-> Summarize(chapters[k].Content)]

C2_Inv ==
    /\ \A c \in ChapterWriterCalls :
         LET k == calls[c].arg.ChapterNumber
             prev == calls[c].arg.PreviousChapters
         IN  /\ k = c - 4
             /\ k \in 1..Len(plan)
             /\ calls[c].arg.Abstraction = abstractions[plan[k] + 1]
             /\ Len(prev) = k - 1
             /\ \A j \in 1..(k - 1) :
                  /\ chapters[j] # ZeroChapter
                  /\ chapters[j].ChapterNumber = j
                  /\ prev[j] = PositionSummary(j)
    /\ previousChapters = [j \in 1..i |-> PositionSummary(j)]

C2_AppendOnly ==
    \/ previousChapters' = previousChapters
    \/ /\ Len(previousChapters') = Len(previousChapters) + 1
       /\ SubSeq(previousChapters', 1, Len(previousChapters)) = previousChapters

\* C2: the composer call for plan position k is issued only when the chapters
\* and derived summaries of positions 1..k-1 exist, the prior-summary list it
\* receives is exactly those summaries in plan order (length k-1), and the
\* list only ever changes by appending one entry.
C2_SequentialComposition == [](C2_Inv) /\ [][C2_AppendOnly]_vars

C2_Witness ==
    \E c \in ChapterWriterCalls :
        /\ calls[c].ok
        /\ calls[c].arg.ChapterNumber = 2
        /\ Len(calls[c].arg.PreviousChapters) = 1
        /\ Len(previousChapters) = 2

\* the service Run calls k-th in a run whose plan has n entries
StageOf(k, n) ==
    CASE k = 1 -> "FileReader"
      [] k = 2 -> "AbstractionAnalyzer"
      [] k = 3 -> "RelationshipAnalyzer"
      [] k = 4 -> "ChapterOrderer"
      [] k >= 5 /\ k <= 4 + n -> "ChapterWriter"
      [] k = 5 + n -> "FileWriter"
      [] OTHER -> "none"

ValidAbstractions ==
    /\ abstractions # <<>>
    /\ \A k \in 1..Len(abstractions) :
         /\ abstractions[k].Index = k - 1
         /\ \A j \in 1..Len(abstractions[k].FileIndices) :
              InRange(abstractions[k].FileIndices[j], Len(files))

ValidRelationships ==
    \A k \in 1..Len(relationships.Details) :
        /\ InRange(relationships.Details[k].FromIndex, Len(abstractions))
        /\ InRange(relationships.Details[k].ToIndex, Len(abstractions))

\* the k-th call returned without error and its output passed validation
OutputValid(k) ==
    /\ calls[k].ok
    /\ CASE k = 1 -> files # <<>> /\ \A f \in 1..Len(files) : files[f].Index = f - 1
         [] k = 2 -> ValidAbstractions
         [] k = 3 -> ValidRelationships
         [] k = 4 -> IsPermutation(plan, Len(abstractions))
         [] OTHER -> /\ k - 4 \in 1..Len(chapters)
                     /\ chapters[k - 4] # ZeroChapter
                     /\ chapters[k - 4].ChapterNumber = k - 4

\* the input of the k-th call is the validated output of the earlier stages
InputAvailable(k) ==
    CASE k = 2 -> calls[k].arg = files
      [] k = 3 -> calls[k].arg = abstractions
      [] k = 4 -> calls[k].arg = abstractions
      [] calls[k].svc = "FileWriter" ->
            /\ calls[k].arg = chapters
            /\ \A j \in 1..Len(chapters) : chapters[j] # ZeroChapter
      [] OTHER -> TRUE

\* C3: the stages are started in the order Corpus, Abstractions,
\* Relationships, Sequence, Chapters, Emission, and each is invoked only after
\* its predecessor returned successfully with an output that passed validation.
C3_StageOrder ==
    \A k \in 1..Len(calls) :
        /\ calls[k].svc = StageOf(k, Len(plan))
        /\ InputAvailable(k)
        /\ k > 1 => OutputValid(k - 1)

C3_Witness == pc = "Done" /\ Len(calls) = 7 /\ calls[7].svc = "FileWriter"

\* the k-th call failed: it returned an error or Run rejected its output
CallFailed(k) ==
    \/ ~calls[k].ok
    \/ k = 1 /\ files = <<>>
    \/ k = 2 /\ abstractions = <<>>

C4_Inv ==
    \A k \in 1..Len(calls) :
        calls[k].svc # "FileWriter" /\ CallFailed(k)
            => /\ k = Len(calls)
               /\ pc = "Failed"
               /\ err.stage # "none"
               /\ err.err.kind # "none"
               /\ result = NoResult
               /\ disk = <<>>

C4_NoFurtherCall == pc = "Failed" => calls' = calls /\ llmCalls' = llmCalls

\* C4: when corpus reading, abstraction extraction, relationship extraction,
\* sequencing or the composition of a chapter fails, Run makes no further
\* call (no generator call, no emission) and returns an error; chapters
\* composed before the failure are not handed to emission.
C4_AbortOnFailure == [](C4_Inv) /\ [][C4_NoFurtherCall]_vars

C4_Witness ==
    /\ pc = "Failed"
    /\ err.stage = "write chapter"
    /\ i = 1
    /\ chapters[1] # ZeroChapter
    /\ Len(calls) = 6
    /\ disk = <<>>

\* C5: in every run that ends with an error, whatever the failing stage (the
\* emission step included), no chapter file has been written.
C5_NoFileOnError == pc = "Failed" => disk = <<>>

\* C6: every abstraction a successful AnalyzeAbstractions returns has Index
\* equal to its 0-based position in the returned list, and carries the name
\* and file list of the response entry at that position.
C6_IndexIsPosition ==
    unit.stage = "AnalyzeAbstractions" /\ unit.out.ok
        => \A k \in 1..Len(unit.out.out) :
              /\ unit.out.out[k].Index = k - 1
              /\ unit.out.out[k].Name = Doc(unit.gen)[k].Name
              /\ unit.out.out[k].FileIndices = Doc(unit.gen)[k].Files

C6_Witness ==
    /\ unit.stage = "AnalyzeAbstractions"
    /\ unit.out.ok
    /\ Len(unit.out.out) = 2
    /\ unit.out.out[2].Index = 1

\* ------------------------------------------------------------------------
\* Relationship edges (single invocations of AnalyzeRelationships)
\* ------------------------------------------------------------------------
\* the edge has a resolved endpoint outside 0..n-1
EdgeOutOfRange(e, n) ==
    \/ extractIndex(e.From).ok /\ ~InRange(extractIndex(e.From).v, n)
    \/ extractIndex(e.To).ok /\ ~InRange(extractIndex(e.To).v, n)

EdgeUnresolved(e) == ~extractIndex(e.From).ok \/ ~extractIndex(e.To).ok

\* the out-of-range endpoints of an edge
OutOfRangeEndpoints(e, n) ==
    {r.v : r \in {x \in {extractIndex(e.From), extractIndex(e.To)} :
                      x.ok /\ ~InRange(x.v, n)}}

\* an invocation of AnalyzeRelationships in which the generator answered a
\* document
RelationshipsAnswered ==
    /\ unit.stage = "AnalyzeRelationships"
    /\ unit.n >= 1
    /\ unit.gen.kind = "ok"

ReturnedEdgesInRange ==
    unit.out.ok =>
        \A k \in 1..Len(unit.out.out.Details) :
            /\ InRange(unit.out.out.Details[k].FromIndex, unit.n)
            /\ InRange(unit.out.out.Details[k].ToIndex, unit.n)

\* C7 as stated: every returned edge is in range, and if any edge of the
\* generator's list has an endpoint outside 0..N-1 the stage fails with an
\* out-of-bounds error naming an offending index and that edge's position.
C7_Original ==
    RelationshipsAnswered =>
        LET d == Doc(unit.gen).Details
        IN  /\ ReturnedEdgesInRange
            /\ (\E k \in 1..Len(d) : EdgeOutOfRange(d[k], unit.n))
                 => /\ ~unit.out.ok
                    /\ unit.out.err.kind \in {"from index out of bounds",
                                              "to index out of bounds"}
                    /\ \E k \in 1..Len(d) :
                         /\ unit.out.err.pos = k - 1
                         /\ unit.out.err.idx \in OutOfRangeEndpoints(d[k], unit.n)

\* C7 (amended): every returned edge is in range; if any edge of the
\* generator's list has an endpoint outside 0..N-1 the stage fails; the error
\* names the first out-of-range endpoint and its edge's position when every
\* reference of that edge and of the edges before it resolves, and otherwise
\* is the resolution failure of the first edge with an unresolvable reference.
C7_EdgesInRange ==
    RelationshipsAnswered =>
        LET d == Doc(unit.gen).Details
            out == {k \in 1..Len(d) : EdgeOutOfRange(d[k], unit.n)}
            bad == {k \in 1..Len(d) : EdgeUnresolved(d[k])}
        IN  /\ ReturnedEdgesInRange
            /\ out # {} =>
                 LET k == CHOOSE x \in out : \A y \in out : x <= y
                     from == extractIndex(d[k].From)
                     to == extractIndex(d[k].To)
                 IN  /\ ~unit.out.ok
                     /\ IF \A j \in bad : j > k
                        THEN unit.out.err =
                               IF ~InRange(from.v, unit.n)
                               THEN [kind |-> "from index out of bounds",
                                     idx |-> from.v, pos |-> k - 1]
                               ELSE [kind |-> "to index out of bounds",
                                     idx |-> to.v, pos |-> k - 1]
                        ELSE /\ unit.out.err.kind \in {"invalid 'from' index",
                                                       "invalid 'to' index"}
                             /\ unit.out.err.pos + 1 \in bad
                             /\ \A j \in bad : unit.out.err.pos + 1 <= j

C7_Witness ==
    /\ RelationshipsAnswered
    /\ Len(Doc(unit.gen).Details) = 2
    /\ ~unit.out.ok
    /\ unit.out.err = [kind |-> "to index out of bounds", idx |-> unit.n, pos |-> 1]

\* ------------------------------------------------------------------------
\* Abstraction lists (single invocations of AnalyzeAbstractions)
\* ------------------------------------------------------------------------
\* the file indices of response entry k that are outside 0..nfiles-1
BadFileIndices(entry, nfiles) ==
    {entry.Files[j] : j \in {x \in 1..Len(entry.Files) :
                                 ~InRange(entry.Files[x], nfiles)}}

\* C8: if any entry of the generator's abstraction list, whatever its
\* position, lists a file index outside 0..corpusSize-1, AnalyzeAbstractions
\* fails with an error naming an offending abstraction and index (stated for
\* ceilings of at least one entry).
C8_BadFileIndexFails ==
    /\ unit.stage = "AnalyzeAbstractions"
    /\ unit.nfiles >= 1
    /\ unit.ceiling >= 1
    /\ unit.gen.kind = "ok"
    /\ \E k \in 1..Len(Doc(unit.gen)) : BadFileIndices(Doc(unit.gen)[k], unit.nfiles) # {}
    => /\ ~unit.out.ok
       /\ unit.out.err.kind = "invalid file index"
       /\ \E k \in 1..Len(Doc(unit.gen)) :
            /\ unit.out.err.name = Doc(unit.gen)[k].Name
            /\ unit.out.err.idx \in BadFileIndices(Doc(unit.gen)[k], unit.nfiles)

\* C9: every successful AnalyzeAbstractions invocation returns at least one
\* abstraction, whatever the corpus, the response and the ceiling.
C9_NeverEmptySuccess ==
    unit.stage = "AnalyzeAbstractions" /\ unit.out.ok => Len(unit.out.out) >= 1

\* ------------------------------------------------------------------------
\* Proposed orders with a repeated index (runs)
\* ------------------------------------------------------------------------
\* the positions of order d that repeat the in-range index of an earlier one
RepeatPositions(d, n) ==
    {b \in 1..Len(d) :
        /\ extractIndex(d[b]).ok
        /\ InRange(extractIndex(d[b]).v, n)
        /\ \E a \in 1..(b - 1) :
             extractIndex(d[a]).ok /\ extractIndex(d[a]).v = extractIndex(d[b]).v}

\* the positions of order d that do not resolve or are out of range
InvalidPositions(d, n) ==
    {b \in 1..Len(d) :
        ~extractIndex(d[b]).ok \/ ~InRange(extractIndex(d[b]).v, n)}

\* the order the generator proposed repeats an in-range index
OrderRepeats ==
    /\ proposed.kind = "ok"
    /\ RepeatPositions(Doc(proposed), Len(abstractions)) # {}

\* the Sequencer failed, so did the run, and nothing was composed
SequencerFailedRun ==
    /\ ~calls[Len(calls)].ok
    /\ calls[Len(calls)].svc = "ChapterOrderer"
    /\ pc = "Failed"
    /\ err.stage = "order chapters"
    /\ ChapterWriterCalls = {}
    /\ plan = <<>>
    /\ chapters = <<>>
    /\ disk = <<>>

\* C10 as stated: a proposed order that holds the same in-range index twice
\* makes the Sequencer fail with a duplicate-index error naming a duplicated
\* value; the run fails and no chapter is composed.
C10_Original ==
    OrderRepeats =>
        /\ SequencerFailedRun
        /\ err.err.kind = "duplicate index"
        /\ \E b \in RepeatPositions(Doc(proposed), Len(abstractions)) :
             err.err.idx = extractIndex(Doc(proposed)[b]).v

\* C10 (amended): a proposed order that holds the same in-range index twice
\* makes the Sequencer and the run fail with no chapter composed; the error
\* is the duplicate-index error naming the value of the first repeating entry
\* when every entry before it resolves in range, and otherwise the error of
\* the first entry that does not resolve or is out of range.
C10_DuplicateOrderFails ==
    OrderRepeats =>
        LET d == Doc(proposed)
            n == Len(abstractions)
            reps == RepeatPositions(d, n)
            b == CHOOSE x \in reps : \A y \in reps : x <= y
            inv == InvalidPositions(d, n)
        IN  /\ SequencerFailedRun
            /\ IF \A j \in inv : j > b
               THEN err.err = [kind |-> "duplicate index",
                               idx |-> extractIndex(d[b]).v]
               ELSE /\ err.err.kind \in {"failed to extract index",
                                         "index out of bounds"}
                    /\ err.err.pos + 1 \in inv
                    /\ \A j \in inv : err.err.pos + 1 <= j

C10_Witness ==
    /\ OrderRepeats
    /\ Len(abstractions) = 2
    /\ Doc(proposed) = <<IntRef(0), IntRef(0)>>
    /\ pc = "Failed"
    /\ err.err = [kind |-> "duplicate index", idx |-> 0]

\* ------------------------------------------------------------------------
\* Proposed orders (single invocations of OrderChapters)
\* ------------------------------------------------------------------------
\* an invocation of OrderChapters over at least one abstraction in which the
\* generator answered a list
OrderAnswered ==
    /\ unit.stage = "OrderChapters"
    /\ unit.n >= 1
    /\ unit.gen.kind = "ok"

\* C11: when OrderChapters rejects a proposed order for a duplicate index,
\* the error it returns identifies the duplicated value and the position of
\* the second occurrence in the list.
C11_DuplicateNamesPosition ==
    OrderAnswered /\ ~unit.out.ok /\ unit.out.err.kind = "duplicate index"
        => LET reps == RepeatPositions(Doc(unit.gen), unit.n)
               b == CHOOSE x \in reps : \A y \in reps : x <= y
           IN  /\ reps # {}
               /\ unit.out.err.idx = extractIndex(Doc(unit.gen)[b]).v
               /\ "pos" \in DOMAIN unit.out.err
               /\ unit.out.err.pos = b - 1

\* the indices the entries of order d resolve to
PresentIndices(d) == {extractIndex(d[k]).v : k \in 1..Len(d)}

\* order d resolves to in-range indices, none twice, and omits an abstraction
OmitsAbstraction(d, n) ==
    /\ InvalidPositions(d, n) = {}
    /\ RepeatPositions(d, n) = {}
    /\ (0..(n - 1)) \ PresentIndices(d) # {}

\* m lists exactly the members of S, in ascending order
IsAscendingListOf(m, S) ==
    /\ Len(m) = Cardinality(S)
    /\ {m[k] : k \in 1..Len(m)} = S
    /\ \A a, b \in 1..Len(m) : a < b => m[a] < m[b]

\* C12: when the proposed order resolves to in-range, duplicate-free indices
\* but omits some abstraction, OrderChapters fails and the missing list it
\* reports holds exactly the indices of 0..N-1 absent from the order, in
\* ascending order; an empty order reports all of 0..N-1.
C12_MissingSetIsExact ==
    OrderAnswered /\ OmitsAbstraction(Doc(unit.gen), unit.n)
        => /\ ~unit.out.ok
           /\ unit.out.err.kind = "missing abstractions in order"
           /\ IsAscendingListOf(unit.out.err.missing,
                                (0..(unit.n - 1)) \ PresentIndices(Doc(unit.gen)))
           /\ Doc(unit.gen) = <<>>
                => unit.out.err.missing = [k \in 1..unit.n |-> k - 1]

C12_Witness ==
    /\ OrderAnswered
    /\ unit.n = MaxAbs
    /\ Doc(unit.gen) = <<>>
    /\ ~unit.out.ok
    /\ Len(unit.out.err.missing) = MaxAbs

\* ------------------------------------------------------------------------
\* Reference resolution (single invocations of extractIndex)
\* ------------------------------------------------------------------------
\* C13: extractIndex returns n for the integer n, for the string holding the
\* decimal text of n, and for every annotated string "n # text" whatever the
\* text; a value that is neither an integer nor a string with an integer
\* before the first # yields an error.
C13_ResolverFormatAgnostic ==
    unit.stage = "extractIndex"
        => IF unit.form \in {"int", "string", "annotated"}
           THEN unit.out.ok /\ unit.out.v = unit.n
           ELSE ~unit.out.ok

C13_Witness ==
    /\ unit.stage = "extractIndex"
    /\ unit.form = "annotated"
    /\ unit.value = StrRef(<<"1", "0", " ", "#", " ", "B", " ", "#", "2">>)
    /\ unit.out.ok
    /\ unit.out.v = 10

\* ------------------------------------------------------------------------
\* References across the generator boundary (one index in two forms)
\* ------------------------------------------------------------------------
\* C14: every stage gives the same result for a reference written as a bare
\* integer and for the same reference written as an annotated string, for
\* file indices as well as for edge endpoints and plan entries.
C14_SameResultBothForms ==
    unit.stage = "Reference" => unit.annotated = unit.bare

\* ------------------------------------------------------------------------
\* Input validation (runs)
\* ------------------------------------------------------------------------
\* C15: a run whose repository path is empty, or whose corpus provider
\* returned no files, fails at the corpus stage with the input-validation
\* error of that case, having made no generator call and written no file.
C15_EmptyCorpusFailsFast ==
    /\ Len(calls) >= 1 /\ input.LocalRepoPath = ""
         => /\ pc = "Failed"
            /\ err = [stage |-> "read files", err |-> [kind |-> "repo_path is required"]]
            /\ Len(calls) = 1
            /\ llmCalls = 0
            /\ disk = <<>>
            /\ result = NoResult
    /\ Len(calls) >= 1 /\ calls[1].ok /\ files = <<>>
         => /\ pc = "Failed"
            /\ err = [stage |-> "read files",
                      err |-> [kind |-> "no files found in repository"]]
            /\ Len(calls) = 1
            /\ llmCalls = 0
            /\ disk = <<>>
            /\ result = NoResult

C15_Witness ==
    /\ pc = "Failed"
    /\ input.LocalRepoPath = "repo"
    /\ calls[1].ok
    /\ files = <<>>
    /\ err.err.kind = "no files found in repository"

\* C16: a run started with an empty output directory makes no generator call:
\* it fails with the input-validation error before the first one.
C16_EmptyOutputDirFailsFast ==
    input.OutputDir = ""
        => /\ llmCalls = 0
           /\ \A c \in 1..Len(calls) : calls[c].llm = 0
           /\ pc = "Failed" => err.err.kind \in {"output_dir is required",
                                                 "repo_path is required",
                                                 "no files found in repository",
                                                 "failed to walk directory"}

\* C17: a WriteChapter call for an abstraction whose name is empty fails with
\* the input-validation error without a generator call; it is the last call
\* of the run, which fails with nothing handed to emission and no file
\* written.
C17_EmptyNameFails ==
    \A c \in ChapterWriterCalls :
        calls[c].arg.Abstraction.Name = <<>>
            => /\ ~calls[c].ok
               /\ calls[c].llm = 0
               /\ llmCalls = c - 2
               /\ c = Len(calls)
               /\ pc = "Failed"
               /\ err = [stage |-> "write chapter",
                         err |-> [kind |-> "abstraction name is required"]]
               /\ chapters[calls[c].arg.ChapterNumber] = ZeroChapter
               /\ result = NoResult
               /\ disk = <<>>

C17_Witness ==
    /\ pc = "Failed"
    /\ Len(calls) = 6
    /\ calls[5].ok
    /\ calls[6].svc = "ChapterWriter"
    /\ calls[6].arg.Abstraction.Name = <<>>
    /\ calls[6].llm = 0
    /\ llmCalls = 4

\* ------------------------------------------------------------------------
\* Generator calls (runs)
\* ------------------------------------------------------------------------
GeneratorStages ==
    {"AbstractionAnalyzer", "RelationshipAnalyzer", "ChapterOrderer", "ChapterWriter"}

\* the errors a stage returns before it reaches the generator: its input is
\* rejected, or the client configuration is missing
RejectedBeforeGenerator ==
    {"no files provided", "no abstractions provided",
     "abstraction name is required", "failed to create LLM client"}

\* call c was turned down before the generator was reached
InputRejected(c) ==
    /\ ~calls[c].ok
    /\ c = Len(calls)
    /\ err.err.kind \in RejectedBeforeGenerator

C18_Inv ==
    /\ \A c \in 1..Len(calls) :
         calls[c].llm = IF calls[c].svc \in GeneratorStages /\ ~InputRejected(c)
                        THEN 1 ELSE 0
    /\ llmCalls = Cardinality({c \in 1..Len(calls) : calls[c].llm = 1})
    /\ pc = "Done" => llmCalls = 3 + Len(abstractions)

C18_NoRetry ==
    /\ llmCalls' \in {llmCalls, llmCalls + 1}
    /\ llmCalls' # llmCalls => Len(calls') = Len(calls) + 1
    /\ (Len(calls) >= 1 /\ ~calls[Len(calls)].ok) => llmCalls' = llmCalls

\* C18: every invocation of a generator-backed stage makes at most one
\* generator call: exactly one when its input is accepted and the client is
\* configured, none otherwise; after a generator error, a parse failure or a
\* validation failure no further generator call is made; a successful run
\* over N abstractions has made exactly 3 + N generator calls.
C18_OneGeneratorCallPerStage == [](C18_Inv) /\ [][C18_NoRetry]_vars

C18_Witness ==
    /\ pc = "Done"
    /\ Len(abstractions) = 2
    /\ llmCalls = 5
    /\ \A c \in 2..5 : calls[c].llm = 1

\* ------------------------------------------------------------------------
\* The orchestrator's state machine (runs)
\* ------------------------------------------------------------------------
\* position of the orchestrator state on the line Init, CorpusReady,
\* AbstractionsReady, RelationshipsReady, PlanReady, Composing(1), ...,
\* Composing(N), Done; Composing(k) is pc = "Composing" with i = k
StateRank(p, k, n) ==
    CASE p = "Init" -> 0
      [] p = "CorpusReady" -> 1
      [] p = "AbstractionsReady" -> 2
      [] p = "RelationshipsReady" -> 3
      [] p = "PlanReady" -> 4
      [] p = "Composing" -> 4 + k
      [] p = "Done" -> 5 + n
      [] OTHER -> 0 - 1

C19_Inv ==
    /\ pc \in {"Init", "CorpusReady", "AbstractionsReady", "RelationshipsReady",
                "PlanReady", "Composing", "Done", "Failed"}
    /\ pc \in {"Init", "CorpusReady", "AbstractionsReady", "RelationshipsReady",
                "PlanReady"} => i = 0
    /\ pc = "Composing" => i \in 1..Len(plan) /\ Len(plan) = Len(abstractions)
    /\ pc = "Done" => i = Len(plan) /\ Len(plan) = Len(abstractions)

C19_Step ==
    /\ pc \notin {"Done", "Failed"}
    /\ \/ pc' = "Failed" /\ i' = i
       \/ /\ pc' # "Failed"
          /\ StateRank(pc', i', Len(plan')) = StateRank(pc, i, Len(plan)) + 1

\* C19: the orchestrator state only moves one step forward along Init,
\* CorpusReady, AbstractionsReady, RelationshipsReady, PlanReady,
\* Composing(1), ..., Composing(N), Done, or from a running state to Failed;
\* no transition leaves Done or Failed.
C19_StateMachine == [](C19_Inv) /\ [][C19_Step]_vars

C19_Witness ==
    /\ pc = "Done"
    /\ i = 2
    /\ Len(plan) = 2
    /\ Len(calls) = 7

\* ------------------------------------------------------------------------
\* Successful runs
\* ------------------------------------------------------------------------
FileWriterCalls == {c \in 1..Len(calls) : calls[c].svc = "FileWriter"}

\* a run that has not ended can take its next step: before the chapter
\* loop the next stage can be called, inside it the plan entry and the
\* chapter slot of the next iteration exist, and after it emission can be
\* called
RunCanStep ==
    /\ pc \in {"Init", "CorpusReady", "AbstractionsReady", "RelationshipsReady"}
         => ENABLED Next
    /\ pc \in {"PlanReady", "Composing"} /\ i < Len(plan)
         => /\ plan[i + 1] + 1 \in DOMAIN abstractions
            /\ i + 1 \in DOMAIN chapters
    /\ pc \in {"PlanReady", "Composing"} /\ i >= Len(plan)
         => ENABLED WriteFilesStep

C20_Inv ==
    /\ pc = "Done" =>
         LET n == Len(abstractions)
         IN  /\ Cardinality(ChapterWriterCalls) = n
             /\ \A c \in ChapterWriterCalls : calls[c].ok
             /\ FileWriterCalls = {Len(calls)}
             /\ calls[Len(calls)].ok
             /\ calls[Len(calls)].arg = chapters
             /\ Len(chapters) = n
             /\ \A k \in 1..n :
                  /\ chapters[k].ChapterNumber = k
                  /\ chapters[k].Title = abstractions[plan[k] + 1].Name
             /\ Len(result.FilesWritten) = n
    /\ pc = "Failed" => Len(calls) >= 1 /\ CallFailed(Len(calls))
    /\ Cardinality(FileWriterCalls) <= 1
    /\ RunCanStep
    /\ Len(calls) <= 5 + DefaultMaxAbstractions

\* every step of a run is one more collaborator call
C20_Progress == Len(calls') = Len(calls) + 1

\* C20: a run ends in Failed only if a collaborator call failed or a
\* validation rejected its output; until it has ended it can always take its
\* next step, each step is one collaborator call and their number is
\* bounded, so a run whose calls all succeed ends in Done; a run that ends in
\* Done has made exactly N composer calls and exactly one emission call,
\* with exactly N chapters in plan order, the chapter at plan position k
\* having number k and the name of abstraction plan[k-1] as its title,
\* whatever text the generator returned.
C20_SuccessfulRun == [](C20_Inv) /\ [][C20_Progress]_vars

C20_Witness ==
    /\ pc = "Done"
    /\ plan = <<1, 0>>
    /\ chapters[1].ChapterNumber = 1
    /\ chapters[1].Title = <<"a", " ">>
    /\ chapters[2].Title = <<"A">>
    /\ abstractions[1].Name = <<"A">>
    /\ Len(result.FilesWritten) = 2

\* ------------------------------------------------------------------------
\* The chapter prompt (single invocations of WriteChapter)
\* ------------------------------------------------------------------------
\* text seg occurs in text p at offset at
OccursAt(p, seg, at) ==
    at + Len(seg) - 1 <= Len(p) /\ SubSeq(p, at, at + Len(seg) - 1) = seg

\* the offsets at or after from at which seg occurs in p
Occurrences(p, seg, from) == {at \in from..(Len(p) + 1) : OccursAt(p, seg, at)}

Contains(p, seg) == Occurrences(p, seg, 1) # {}

\* the offset of the first occurrence of seg in p at or after from, 0 if none
FirstAt(p, seg, from) ==
    IF Occurrences(p, seg, from) = {} THEN 0
    ELSE CHOOSE at \in Occurrences(p, seg, from) :
            \A b \in Occurrences(p, seg, from) : at <= b

\* the name and summary of every entry of prev occur in p, one entry after
\* the other in list order, from offset from on
RECURSIVE InListOrder(_, _, _, _)
InListOrder(p, prev, j, from) ==
    IF j > Len(prev) THEN TRUE
    ELSE LET at == FirstAt(p, prev[j].Name \o <<":", " ">> \o prev[j].Summary,
                           from)
         IN  at # 0 /\ InListOrder(p, prev, j + 1,
                          at + Len(prev[j].Name) + 2 + Len(prev[j].Summary))

\* how often seg occurs in the paths and contents of the files that the
\* file indices from position j on select
RECURSIVE InFiles(_, _, _, _)
InFiles(fileIndices, inputFiles, seg, j) ==
    IF j > Len(fileIndices) THEN 0
    ELSE (IF fileIndices[j] >= Len(inputFiles) THEN 0
          ELSE Cardinality(Occurrences(inputFiles[fileIndices[j] + 1].Path, seg, 1))
                 + Cardinality(Occurrences(inputFiles[fileIndices[j] + 1].Content,
                                           seg, 1)))
         + InFiles(fileIndices, inputFiles, seg, j + 1)

\* how often seg occurs in the texts the caller gave about the target: the
\* project name, the name (written twice), the description and the files
InOwnTexts(in, seg) ==
    Cardinality(Occurrences(in.ProjectName, seg, 1))
        + 2 * Cardinality(Occurrences(in.Abstraction.Name, seg, 1))
        + Cardinality(Occurrences(in.Abstraction.Description, seg, 1))
        + InFiles(in.Abstraction.FileIndices, in.Files, seg, 1)

\* an invocation of WriteChapter that called the generator
ComposerPrompted == unit.stage = "WriteChapter" /\ unit.out.llm = 1

\* C21 as first stated: the prompt WriteChapter sends holds the name and
\* summary of every entry of the previous-chapters list it was given, in
\* list order, after the header of the previous-chapters block; when the
\* list is empty the prompt has no such header and names no abstraction but
\* the target.
C21_Original ==
    ComposerPrompted =>
        LET prev == unit.input.PreviousChapters
            p == unit.prompt
        IN  IF Len(prev) > 0
            THEN /\ Contains(p, <<PromptPreviousHeader>>)
                 /\ InListOrder(p, prev, 1, FirstAt(p, <<PromptPreviousHeader>>, 1))
            ELSE /\ ~Contains(p, <<PromptPreviousHeader>>)
                 /\ \A name \in UnitNames \ {unit.input.Abstraction.Name} :
                      ~Contains(p, name)

\* C21: the prompt WriteChapter sends holds the name and summary of every
\* entry of the previous-chapters list it was given, in list order, after
\* the header of the previous-chapters block; when the list is empty the
\* prompt adds no such block and no abstraction's name of its own: the
\* header and the name of an abstraction other than the target occur in it
\* no more often than in the project name, the target's name and
\* description and the paths and contents of the target's files.
C21_PromptCarriesContext ==
    ComposerPrompted =>
        LET prev == unit.input.PreviousChapters
            p == unit.prompt
        IN  IF Len(prev) > 0
            THEN /\ Contains(p, <<PromptPreviousHeader>>)
                 /\ InListOrder(p, prev, 1, FirstAt(p, <<PromptPreviousHeader>>, 1))
            ELSE \A seg \in {<<PromptPreviousHeader>>}
                              \cup (UnitNames \ {unit.input.Abstraction.Name}) :
                    Cardinality(Occurrences(p, seg, 1)) <= InOwnTexts(unit.input, seg)

C21_Witness ==
    /\ ComposerPrompted
    /\ Len(unit.input.PreviousChapters) = 2
    /\ unit.input.PreviousChapters[1].Name = <<"B">>
    /\ unit.input.PreviousChapters[2].Name = <<"A">>
    /\ unit.input.Abstraction.Name = <<"A">>
    /\ Contains(unit.prompt, <<"-", " ", "B", ":", " ">>)

\* ------------------------------------------------------------------------
\* Permissive edge lists (single invocations of AnalyzeRelationships)
\* ------------------------------------------------------------------------
\* C23: AnalyzeRelationships accepts every edge list whose endpoints all
\* resolve to values in 0..N-1, self-loops, repeated edges, cycles and the
\* empty list included, and returns the edges with the count, order,
\* endpoints and labels of the list; it rejects a list only for an
\* unresolvable reference or an out-of-range endpoint.
C23_PermissiveEdges ==
    RelationshipsAnswered =>
        LET d == Doc(unit.gen).Details
            clean == \A k \in 1..Len(d) :
                        ~EdgeUnresolved(d[k]) /\ ~EdgeOutOfRange(d[k], unit.n)
        IN  /\ unit.out.ok <=> clean
            /\ unit.out.ok =>
                 /\ Len(unit.out.out.Details) = Len(d)
                 /\ \A k \in 1..Len(d) :
                      unit.out.out.Details[k] =
                          [FromIndex |-> extractIndex(d[k].From).v,
                           ToIndex |-> extractIndex(d[k].To).v,
                           Label |-> d[k].Label]
            /\ ~unit.out.ok =>
                 unit.out.err.kind \in {"invalid 'from' index", "invalid 'to' index",
                                        "from index out of bounds",
                                        "to index out of bounds"}

C23_Witness ==
    /\ RelationshipsAnswered
    /\ unit.n = 2
    /\ unit.out.ok
    /\ unit.out.out.Details =
         <<[FromIndex |-> 0, ToIndex |-> 0, Label |-> <<"v">>],
           [FromIndex |-> 0, ToIndex |-> 0, Label |-> <<"v">>]>>

\* ------------------------------------------------------------------------
\* The abstraction ceiling (single invocations of AnalyzeAbstractions)
\* ------------------------------------------------------------------------
Min(a, b) == IF a <= b THEN a ELSE b

\* C24: for a ceiling of zero or more, a response with more entries than the
\* ceiling does not make AnalyzeAbstractions fail: the call succeeds exactly
\* when the file indices of the first `ceiling` entries (of all entries, when
\* there are at most `ceiling`) are in range, and then returns those entries
\* in their order, never more than the ceiling.
C24_TruncatesToCeiling ==
    /\ unit.stage = "AnalyzeAbstractions"
    /\ unit.nfiles >= 1
    /\ unit.ceiling >= 0
    /\ unit.gen.kind = "ok"
    /\ Len(Doc(unit.gen)) >= 1
    => LET d == Doc(unit.gen)
           kept == Min(Len(d), unit.ceiling)
       IN  /\ unit.out.ok <=>
                \A k \in 1..kept : BadFileIndices(d[k], unit.nfiles) = {}
           /\ ~unit.out.ok => unit.out.err.kind = "invalid file index"
           /\ unit.out.ok =>
                /\ Len(unit.out.out) = kept
                /\ Len(unit.out.out) <= unit.ceiling
                /\ \A k \in 1..kept :
                     /\ unit.out.out[k].Name = d[k].Name
                     /\ unit.out.out[k].FileIndices = d[k].Files

C24_Witness ==
    /\ unit.stage = "AnalyzeAbstractions"
    /\ unit.ceiling = 1
    /\ unit.gen.kind = "ok"
    /\ Len(Doc(unit.gen)) = 2
    /\ Doc(unit.gen)[1].Name = <<"A">>
    /\ Doc(unit.gen)[2].Name = <<"B">>
    /\ unit.out.ok
    /\ Len(unit.out.out) = 1
    /\ unit.out.out[1].Name = <<"A">>

\* ------------------------------------------------------------------------
\* File-name sanitization (single invocations of SanitizeFilename)
\* ------------------------------------------------------------------------
IsLowerAlnum(c) == (\E k \in 1..26 : LowerLetters[k] = c) \/ c \in Digits

\* the lower-cased title
Lowered(title) == [k \in 1..Len(title) |-> ToLowerChar(title[k])]

\* the kept characters of s, each preceded by one underscore when a run of
\* other characters separates it from an earlier kept character
RECURSIVE RunsReplaced(_, _)
RunsReplaced(s, k) ==
    IF k > Len(s) THEN <<>>
    ELSE IF ~IsLowerAlnum(s[k]) THEN RunsReplaced(s, k + 1)
    ELSE (IF k > 1 /\ ~IsLowerAlnum(s[k - 1]) /\ (\E j \in 1..(k - 1) : IsLowerAlnum(s[j]))
          THEN <<"_">> ELSE <<>>)
             \o <<s[k]>> \o RunsReplaced(s, k + 1)

Sanitized == unit.stage = "SanitizeFilename"

\* C25: the sanitized title holds only [a-z0-9_], has no two consecutive
\* underscores and no underscore at either end, equals the lower-cased title
\* with every maximal run of other characters replaced by one underscore and
\* the underscores at the ends removed, and sanitizing it again changes nothing.
C25_SanitizedShape ==
    Sanitized =>
        LET out == unit.out
        IN  /\ \A k \in 1..Len(out) : IsLowerAlnum(out[k]) \/ out[k] = "_"
            /\ \A k \in 1..(Len(out) - 1) : ~(out[k] = "_" /\ out[k + 1] = "_")
            /\ out # <<>> => out[1] # "_" /\ out[Len(out)] # "_"
            /\ out = RunsReplaced(Lowered(unit.title), 1)
            /\ unit.again = out
            /\ unit.title = <<"_", "_", "A", "-", "-", "B", "_", "_">>
                  => out = <<"a", "_", "b">>
            /\ Len(unit.title) = 17
                  => out = <<"n", "o", "d", "e", "_", "a", "b", "s", "t", "r", "a",
                             "c", "t", "i", "o", "n">>

C25_Witness ==
    /\ Sanitized
    /\ unit.title = <<"A", "-", "-", "-", "b">>
    /\ unit.out = <<"a", "_", "b">>

\* ------------------------------------------------------------------------
\* File emission (pipeline runs)
\* ------------------------------------------------------------------------
\* the two decimal digits of k, for k below 100
TwoDigits(k) == <<DigitChars[(k \div 10) + 1], DigitChars[(k % 10) + 1]>>

\* C26: a run that ended in Done has written one file per chapter, in
\* chapter-list order, the k-th named <two digits of k>_<sanitized title>.md
\* in the output directory; the paths returned are those files in the same
\* order and are pairwise distinct, also when titles sanitize to equal text.
C26_OneFilePerChapter ==
    pc = "Done" =>
        /\ Len(result.FilesWritten) = Len(chapters)
        /\ disk = result.FilesWritten
        /\ \A k \in 1..Len(chapters) :
             /\ result.FilesWritten[k].dir = input.OutputDir
             /\ result.FilesWritten[k].name =
                    TwoDigits(k) \o <<"_">> \o SanitizeFilename(chapters[k].Title)
                        \o <<".", "m", "d">>
        /\ \A j, k \in 1..Len(result.FilesWritten) :
             j # k => result.FilesWritten[j] # result.FilesWritten[k]

C26_Witness ==
    /\ pc = "Done"
    /\ Len(chapters) = 2
    /\ chapters[1].Title = <<"A">>
    /\ chapters[2].Title = <<"a", " ">>
    /\ result.FilesWritten[1].name = <<"0", "1", "_", "a", ".", "m", "d">>
    /\ result.FilesWritten[2].name = <<"0", "2", "_", "a", ".", "m", "d">>
    /\ disk = result.FilesWritten

\* ------------------------------------------------------------------------
\* Validation order of the plan (single invocations of OrderChapters)
\* ------------------------------------------------------------------------
\* entry k of the proposed order d is unresolvable, out of range for n
\* abstractions, or repeats the value of an earlier entry
EntryUnresolved(d, k) == ~extractIndex(d[k]).ok

EntryOutOfRange(d, k, n) ==
    extractIndex(d[k]).ok /\ ~InRange(extractIndex(d[k]).v, n)

EntryDuplicate(d, k, n) ==
    /\ extractIndex(d[k]).ok
    /\ InRange(extractIndex(d[k]).v, n)
    /\ \E j \in 1..(k - 1) :
         extractIndex(d[j]).ok /\ extractIndex(d[j]).v = extractIndex(d[k]).v

Offending(d, n) ==
    {k \in 1..Len(d) :
        EntryUnresolved(d, k) \/ EntryOutOfRange(d, k, n) \/ EntryDuplicate(d, k, n)}

\* C27: OrderChapters fails with the error of the earliest offending entry of
\* the proposed order (unresolvable, else out of range, else duplicate, at
\* that entry), whatever later entries hold; it reports missing abstractions
\* only when no entry offends, and succeeds only when none offends and the
\* list has one entry per abstraction.
C27_EarliestOffenceWins ==
    OrderAnswered =>
        LET d == Doc(unit.gen)
            bad == Offending(d, unit.n)
        IN  /\ unit.out.ok <=> (bad = {} /\ Len(d) = unit.n)
            /\ (bad = {} /\ Len(d) # unit.n)
                  => unit.out.err.kind = "missing abstractions in order"
            /\ bad # {} =>
                 LET k == CHOOSE b \in bad : \A c \in bad : b <= c
                     e == unit.out.err
                 IN  /\ EntryUnresolved(d, k)
                          => e.kind = "failed to extract index" /\ e.pos = k - 1
                     /\ EntryOutOfRange(d, k, unit.n)
                          => /\ e.kind = "index out of bounds"
                             /\ e.pos = k - 1
                             /\ e.idx = extractIndex(d[k]).v
                     /\ EntryDuplicate(d, k, unit.n)
                          => /\ e.kind = "duplicate index"
                             /\ e.idx = extractIndex(d[k]).v

C27_Witness ==
    /\ OrderAnswered
    /\ unit.n = 2
    /\ Doc(unit.gen) = <<IntRef(0), IntRef(0), IntRef(2)>>
    /\ ~unit.out.ok
    /\ unit.out.err.kind = "duplicate index"
    /\ unit.out.err.idx = 0

\* ------------------------------------------------------------------------
\* Selection of the structured block (single response extractions)
\* ------------------------------------------------------------------------
TagLetters == {"y", "a", "m", "l", "t"}

\* the offsets of the fences of p at or after from, scanned left to right
RECURSIVE FenceOffsets(_, _)
FenceOffsets(p, from) ==
    IF FirstAt(p, Fence, from) = 0 THEN <<>>
    ELSE <<FirstAt(p, Fence, from)>> \o FenceOffsets(p, FirstAt(p, Fence, from) + 3)

\* the text of p from offset from up to the next fence, or to the end
UpToNextFence(p, from) ==
    IF FirstAt(p, Fence, from) = 0 THEN SubSeq(p, from, Len(p))
    ELSE SubSeq(p, from, FirstAt(p, Fence, from) - 1)

\* the fence at offset at is followed by no language tag
Untagged(p, at) == at + 3 > Len(p) \/ p[at + 3] \notin TagLetters

\* the opening fences of the fenced blocks of p: every other fence
OpeningFences(p) ==
    LET f == FenceOffsets(p, 1)
    IN  {f[k] : k \in {j \in 1..Len(f) : j % 2 = 1}}

UntaggedBlocks(p) == {at \in OpeningFences(p) : Untagged(p, at)}

Extracted == unit.stage = "yamlContent"

\* C28: the text selected for parsing is the content of the first block
\* opened with the yaml-tagged fence, up to the next fence; when no fence
\* carries that tag, the content of the first untagged fenced block; when
\* the response has no fence, the whole response.
C28_SelectsBlockByPriority ==
    Extracted =>
        LET r == unit.response
        IN  /\ Contains(r, FenceYaml)
                 => unit.out = UpToNextFence(r, FirstAt(r, FenceYaml, 1) + 7)
            /\ (~Contains(r, FenceYaml) /\ UntaggedBlocks(r) # {})
                 => LET at == CHOOSE b \in UntaggedBlocks(r) :
                                 \A c \in UntaggedBlocks(r) : b <= c
                    IN  unit.out = UpToNextFence(r, at + 3)
            /\ ~Contains(r, Fence) => unit.out = r

\* ------------------------------------------------------------------------
\* Index lookups (pipeline runs)
\* ------------------------------------------------------------------------
\* C29: in every state of a run, every file index of a produced abstraction
\* is an index of the corpus, both endpoints of every produced relationship
\* and every entry of the plan are indices of the abstraction list, and the
\* plan entry the chapter loop selects next names an existing abstraction;
\* no call of the run ended in an index-out-of-range panic.
C29_LookupsInRange ==
    /\ \A a \in 1..Len(abstractions) :
         \A j \in 1..Len(abstractions[a].FileIndices) :
            InRange(abstractions[a].FileIndices[j], Len(files))
    /\ \A e \in 1..Len(relationships.Details) :
         /\ InRange(relationships.Details[e].FromIndex, Len(abstractions))
         /\ InRange(relationships.Details[e].ToIndex, Len(abstractions))
    /\ \A k \in 1..Len(plan) : InRange(plan[k], Len(abstractions))
    /\ (pc \in {"PlanReady", "Composing"} /\ i < Len(plan))
          => plan[i + 1] + 1 \in DOMAIN abstractions
    /\ err.err.kind # "panic: index out of range"

C29_Witness ==
    /\ pc = "Composing"
    /\ i = 1
    /\ plan = <<1, 0>>
    /\ abstractions[1].FileIndices = <<0>>
    /\ Len(relationships.Details) = 1
    /\ relationships.Details[1].FromIndex = 0

\* ------------------------------------------------------------------------
\* The empty relationship document (pipeline runs)
\* ------------------------------------------------------------------------
EmptyAnswered == answered.kind = "ok" /\ Doc(answered) = EmptyRelationshipDoc

\* C30: when the generator answers the RelationshipAnalyzer with an empty
\* document, the call succeeds with an empty summary and no edges, the run
\* does not fail at that stage, and it goes on to OrderChapters with that
\* empty graph.
C30_EmptyGraphProceeds ==
    EmptyAnswered =>
        /\ \E c \in 1..Len(calls) : calls[c].svc = "RelationshipAnalyzer" /\ calls[c].ok
        /\ relationships = [Summary |-> <<>>, Details |-> <<>>]
        /\ ~(pc = "Failed" /\ err.stage = "analyze relationships")
        /\ pc # "AbstractionsReady"
        /\ pc = "RelationshipsReady" => ENABLED OrderChaptersStep

C30_Witness ==
    /\ EmptyAnswered
    /\ pc = "PlanReady"
    /\ relationships = [Summary |-> <<>>, Details |-> <<>>]
    /\ plan = <<1, 0>>
    /\ calls[Len(calls)].svc = "ChapterOrderer"
    /\ calls[Len(calls)].ok

====
